---------------------------- MODULE Spec2Model ----------------------------
(***************************************************************************)
(* A model of the recipe-reader extraction pipeline:                       *)
(*   - UrlProcessor.fetch_content / validate_url / normalize_url           *)
(*   - UrlProcessor.extract_recipe_content and its four strategies         *)
(*   - GeminiService.extract_recipe (cache, retry loop, fallback)          *)
(*   - ImageProcessingService (single image, multi image)                  *)
(*   - TextProcessor._calculate_confidence and the router's blending       *)
(*   - the recipe models and their validators                              *)
(*   - AdminRateLimiter (the sliding window of the admin endpoints)        *)
(* Confidence scores are exact decimals, counted in thousandths.           *)
(***************************************************************************)
EXTENDS Integers, Sequences, FiniteSets, TLC

VARIABLES
    \* ---- UrlProcessor.fetch_content ----
    f_pc,          \* "idle" | "loop" | "returned" | "raised"
    f_url,         \* the url argument as given by the caller
    f_target,      \* what urlparse reads from the normalized url (the request target)
    f_options,     \* options['max_retries'], if the caller gave one
    f_max_retries, \* options.get('max_retries', self.max_retries)
    f_attempt,     \* the loop variable of `for attempt in range(max_retries)`
    f_last_error,  \* the local last_error
    f_hist,        \* history: the outcome of every client.get issued, in order
    f_sleeps,      \* history: every asyncio.sleep, as [after, wait]
    f_errors,      \* history: every exception that left fetch_content
    \* ---- UrlProcessor.extract_recipe_content ----
    c_pc,          \* "idle" | "done"
    c_page,        \* the parsed html (what the soup holds)
    c_result,      \* the returned dict: content, extraction_method, confidence
    \* ---- the extraction services and the calls in flight ----
    api_key,       \* whether GOOGLE_AI_API_KEY was set when the services were built
    reqs,          \* per call: the coroutine's locals, its position, what it returned
    g_cache,       \* GeminiService.cache
    i_cache,       \* ImageProcessingService.cache
    \* ---- the recipe models (app/models/recipe.py) and recipe assembly ----
    m_call,        \* the last construction: what was passed, what came of it
    \* ---- AdminRateLimiter (app/security/admin_security.py) ----
    l_now,         \* what time.time() returns
    l_requests,    \* self.requests: the ips that have an entry, and their times
    l_last_cleanup,\* self.last_cleanup
    l_log          \* history: every is_allowed call, as [ip, time, allowed]

fetchVars == <<f_pc, f_url, f_target, f_options, f_max_retries, f_attempt, f_last_error,
               f_hist, f_sleeps, f_errors>>

contentVars == <<c_pc, c_page, c_result>>

extractVars == <<api_key, reqs, g_cache, i_cache>>

recipeVars == <<m_call>>

limiterVars == <<l_now, l_requests, l_last_cleanup, l_log>>

vars == <<fetchVars, contentVars, extractVars, recipeVars, limiterVars>>

\* what each component leaves alone
notFetch == <<contentVars, extractVars, recipeVars, limiterVars>>
notContent == <<fetchVars, extractVars, recipeVars, limiterVars>>
notExtract == <<fetchVars, contentVars, recipeVars, limiterVars>>
notRecipe == <<fetchVars, contentVars, extractVars, limiterVars>>
notLimiter == <<fetchVars, contentVars, extractVars, recipeVars>>

None == "None"

\* an Optional value is [some, v]
NilInt == [some |-> FALSE, v |-> 0]
NilSeq == [some |-> FALSE, v |-> <<>>]
Some(x) == [some |-> TRUE, v |-> x]

(***************************************************************************)
(* Bounds of the model.                                                    *)
(***************************************************************************)
MaxRetriesBound == 3
MaxScripts == 2
MaxAttempts == 2
MaxItems == 10
MaxImages == 2

(***************************************************************************)
(* URLs.  A url is the text  lead[1] lead[2] ... host [:port] /path  where *)
(* lead is the sequence of "scheme://" prefixes the text starts with       *)
(* (empty for a scheme-less url), host is a domain name or an IPv4 literal *)
(* and port is None or a number.                                           *)
(***************************************************************************)
Domain(n) == [kind |-> "domain", name |-> n, ip |-> <<0, 0, 0, 0>>]
IPv4(a, b, c, d) == [kind |-> "ipv4", name |-> "", ip |-> <<a, b, c, d>>]

Hosts ==
    { Domain("example.com"),
      IPv4(127, 0, 0, 1), IPv4(10, 0, 0, 5), IPv4(172, 16, 0, 1),
      IPv4(172, 32, 0, 1), IPv4(192, 168, 1, 1), IPv4(169, 254, 1, 1),
      IPv4(240, 0, 0, 1), IPv4(8, 8, 8, 8) }

\* parsed.port is None when the text has no port
NoPort == -1

Ports == {NoPort, 0, 80, 8080, 22, 3306, 6379}

Leads == { <<>>, <<"http://">>, <<"https://">>, <<"ftp://">>, <<"HTTP://">> }

Urls == [lead : Leads, host : Hosts, port : Ports]

\* str.lower() of a scheme prefix, without its "://"
SchemeName(p) ==
    CASE p = "http://"  -> "http"
      [] p = "https://" -> "https"
      [] p = "HTTP://"  -> "http"
      [] p = "ftp://"   -> "ftp"

\* ipaddress: IPv4Address.is_loopback, .is_private, .is_reserved
is_loopback(ip) == ip[1] = 127
is_reserved(ip) == ip[1] >= 240
is_private(ip) ==
    \/ ip[1] = 0
    \/ ip[1] = 10
    \/ ip[1] = 127
    \/ ip[1] = 169 /\ ip[2] = 254
    \/ ip[1] = 172 /\ ip[2] >= 16 /\ ip[2] <= 31
    \/ ip[1] = 192 /\ ip[2] = 168
    \/ ip[1] = 198 /\ ip[2] \in {18, 19}
    \/ ip[1] >= 240

dangerous_ports == {22, 23, 25, 53, 135, 139, 445, 993, 995, 1433, 3306, 3389, 5432, 6379}

\* url.startswith(('http://', 'https://')) or else 'https://' + url
normalize_url(u) ==
    IF u.lead # <<>> /\ u.lead[1] \in {"http://", "https://"}
    THEN u
    ELSE [u EXCEPT !.lead = <<"https://">> \o @]

\* urlparse: scheme, hostname and port of the text.  A second "scheme://" in
\* the text makes the netloc "scheme:" (hostname the scheme's name, empty
\* port) and pushes the host into the path.
urlparse(u) ==
    IF u.lead = <<>>
    THEN [scheme |-> "", netloc |-> FALSE, hostname |-> Domain(""), port |-> NoPort]
    ELSE IF Len(u.lead) = 1
    THEN [scheme |-> SchemeName(u.lead[1]), netloc |-> TRUE,
          hostname |-> u.host, port |-> u.port]
    ELSE [scheme |-> SchemeName(u.lead[1]), netloc |-> TRUE,
          hostname |-> Domain(SchemeName(u.lead[2])), port |-> NoPort]

validate_url(u) ==
    LET parsed == urlparse(u) IN
    IF ~(parsed.scheme \in {"http", "https"} /\ parsed.netloc) THEN FALSE
    ELSE IF /\ parsed.hostname.kind = "ipv4"
            /\ \/ is_private(parsed.hostname.ip)
               \/ is_loopback(parsed.hostname.ip)
               \/ is_reserved(parsed.hostname.ip)
    THEN FALSE
    ELSE IF parsed.port # NoPort /\ parsed.port # 0 /\ parsed.port \in dangerous_ports
    THEN FALSE
    ELSE TRUE

(***************************************************************************)
(* UrlProcessor.fetch_content                                              *)
(***************************************************************************)
retry_delay == 1

\* self.max_retries = 3
self_max_retries == 3

\* 2 ** n
RECURSIVE Pow2(_)
Pow2(n) == IF n <= 0 THEN 1 ELSE 2 * Pow2(n - 1)

\* a variant that waits the same time after every attempt
fetch_wait_time_constant(attempt) == retry_delay

\* wait_time = self.retry_delay * (2 ** attempt), in both places it is computed
fetch_wait_time(attempt) == retry_delay * Pow2(attempt)

\* what one client.get can come back with
Responses == {"200", "429", "404", "500", "Timeout", "ConnectError"}
RetryableResponses == {"429", "Timeout", "ConnectError"}
OtherStatuses == {"404", "500"}

\* the exception an attempt's failure is caught as
CaughtAs(resp) == IF resp \in OtherStatuses THEN "HTTPStatusError" ELSE resp

NoTarget == [scheme |-> "", netloc |-> FALSE, hostname |-> Domain(""), port |-> NoPort]

FetchInit ==
    /\ f_pc = "idle"
    /\ f_url = [lead |-> <<>>, host |-> Domain(""), port |-> NoPort]
    /\ f_target = NoTarget
    /\ f_options = NilInt
    /\ f_max_retries = 0
    /\ f_attempt = 0
    /\ f_last_error = None
    /\ f_hist = <<>>
    /\ f_sleeps = <<>>
    /\ f_errors = <<>>

\* fetch_content up to the loop: normalize, validate, read the options
fetch_content_start(u, options_max_retries) ==
    /\ f_pc = "idle"
    /\ f_url' = u
    /\ f_options' = options_max_retries
    /\ f_max_retries' = IF options_max_retries.some THEN options_max_retries.v
                        ELSE self_max_retries
    /\ f_attempt' = 0
    /\ f_last_error' = None
    /\ IF ~validate_url(normalize_url(u))
       THEN /\ f_pc' = "raised"
            /\ f_errors' = Append(f_errors, [type |-> "ValueError", last |-> None])
            /\ f_target' = NoTarget
       ELSE /\ f_pc' = "loop"
            /\ f_errors' = f_errors
            /\ f_target' = urlparse(normalize_url(u))
    /\ UNCHANGED <<f_hist, f_sleeps>>
    /\ UNCHANGED notFetch

\* one pass of the loop body: client.get, the status checks, the except clause
fetch_content_attempt(resp) ==
    /\ f_pc = "loop"
    /\ f_attempt < f_max_retries
    /\ f_hist' = Append(f_hist, resp)
    /\ CASE resp = "200" ->
              /\ f_pc' = "returned"
              /\ UNCHANGED <<f_attempt, f_last_error, f_sleeps>>
         [] resp = "429" ->
              /\ f_sleeps' = Append(f_sleeps, [after |-> f_attempt,
                                               wait |-> fetch_wait_time(f_attempt)])
              /\ f_attempt' = f_attempt + 1
              /\ UNCHANGED <<f_pc, f_last_error>>
         [] OTHER ->
              /\ f_last_error' = CaughtAs(resp)
              /\ f_sleeps' = IF f_attempt < f_max_retries - 1
                             THEN Append(f_sleeps, [after |-> f_attempt,
                                                    wait |-> fetch_wait_time(f_attempt)])
                             ELSE f_sleeps
              /\ f_attempt' = f_attempt + 1
              /\ UNCHANGED f_pc
    /\ UNCHANGED <<f_url, f_target, f_options, f_max_retries, f_errors>>
    /\ UNCHANGED notFetch

\* the loop is over without a return: raise Exception(... Last error: last_error)
fetch_content_exhausted ==
    /\ f_pc = "loop"
    /\ f_attempt >= f_max_retries
    /\ f_pc' = "raised"
    /\ f_errors' = Append(f_errors, [type |-> "Exception", last |-> f_last_error])
    /\ UNCHANGED <<f_url, f_target, f_options, f_max_retries, f_attempt, f_last_error,
                   f_hist, f_sleeps>>
    /\ UNCHANGED notFetch

NextFetch ==
    \/ \E u \in Urls, options_max_retries \in {NilInt} \cup {Some(n) : n \in 0..MaxRetriesBound} :
            fetch_content_start(u, options_max_retries)
    \/ \E resp \in Responses : fetch_content_attempt(resp)
    \/ fetch_content_exhausted

(***************************************************************************)
(* UrlProcessor.extract_recipe_content                                     *)
(*                                                                         *)
(* A page is what the soup holds for the four strategies:                  *)
(*   scripts   the <script type="application/ld+json"> blocks, in order    *)
(*   microdata the first element whose itemtype matches Recipe, if any     *)
(*   blocks    the elements the css selectors match, in selector order     *)
(*   body      the visible text left after the unwanted elements are gone  *)
(* A text is a sequence of lines; the empty text is << >>.  A value that   *)
(* may be None is a record [none, text].                                   *)
(***************************************************************************)
NoneText == [none |-> TRUE, text |-> <<>>]
Str(t) == [none |-> FALSE, text |-> t]

\* Python truthiness of an Optional[str]
Truthy(c) == ~c.none /\ c.text # <<>>

\* JSON values a script block can parse to
Dict(type, name, graph) == [j |-> "dict", type |-> type, name |-> name, graph |-> graph]
Scalar == [j |-> "scalar", type |-> "", name |-> "", graph |-> <<>>]
NoGraph == <<"absent">>

\* a script block: its text does not parse ("bad"), it has no text at all
\* ("none": script.string is None), or it parses to a dict or to a list
Block(raw, top, items) == [raw |-> raw, top |-> top, items |-> items]

BlockChoices(n) ==
    { Block("bad", "dict", <<>>),
      Block("none", "dict", <<>>),
      Block("ok", "dict", <<Dict("Recipe", n, NoGraph)>>),
      Block("ok", "dict", <<Dict("Recipe", "", NoGraph)>>),
      Block("ok", "dict", <<Dict("Article", n, NoGraph)>>),
      Block("ok", "dict", <<Dict("", "", <<Dict("Article", "a", NoGraph),
                                          Dict("Recipe", n, NoGraph)>>)>>),
      Block("ok", "list", <<Dict("Recipe", n, NoGraph), Dict("Article", "a", NoGraph)>>),
      Block("ok", "list", <<Dict("Article", "a", NoGraph), Dict("Recipe", n, NoGraph)>>),
      Block("ok", "list", <<>>),
      Block("ok", "list", <<Scalar>>) }

ScriptName(i) == IF i = 1 THEN "J1" ELSE IF i = 2 THEN "J2" ELSE "J3"

RECURSIVE ScriptSeqs(_)
ScriptSeqs(n) ==
    IF n = 0 THEN {<<>>}
    ELSE ScriptSeqs(n - 1) \cup
         { Append(s, b) : s \in { t \in ScriptSeqs(n - 1) : Len(t) = n - 1 },
                          b \in BlockChoices(ScriptName(n)) }

\* the microdata element: absent, present without any itemprop, or with a name
Microdatas == { [present |-> FALSE, name |-> ""],
                [present |-> TRUE,  name |-> ""],
                [present |-> TRUE,  name |-> "M"] }

\* an element a selector matched: how many recipe keywords and cooking verbs
\* its text holds, the text's length, and what is left of it after cleaning
Elem(kw, verbs, length, cleaned) ==
    [kw |-> kw, verbs |-> verbs, length |-> length, cleaned |-> cleaned]

SelectorMatches ==
    { <<>>,
      << Elem(5, 0, 500, <<"S1">>) >>,
      << Elem(5, 1, 500, <<"S1">>) >>,
      << Elem(10, 2, 50, <<"S1">>) >>,
      << Elem(6, 0, 500, <<"S1">>), Elem(8, 3, 500, <<"S2">>) >>,
      << Elem(8, 3, 500, <<"S1">>), Elem(8, 3, 500, <<"S2">>) >>,
      << Elem(11, 0, 132, <<>>) >> }

Bodies == { <<>>, <<"body">> }

Pages == [scripts : ScriptSeqs(MaxScripts), microdata : Microdatas,
          blocks : SelectorMatches, body : Bodies]

_is_recipe_schema(data) == data.type = "Recipe"

\* the labelled text block; a recipe with none of the fields gives ''
_format_json_ld_recipe(data) ==
    IF data.name = "" THEN <<>> ELSE <<"Recipe:", data.name>>

\* the first recipe among the @graph items, as [found, text]
RECURSIVE GraphScan(_, _)
GraphScan(items, i) ==
    IF i > Len(items) THEN [found |-> FALSE, text |-> <<>>]
    ELSE IF _is_recipe_schema(items[i])
         THEN [found |-> TRUE, text |-> _format_json_ld_recipe(items[i])]
         ELSE GraphScan(items, i + 1)

\* the loop over the scripts, from script i on
RECURSIVE JsonLdScan(_, _)
JsonLdScan(scripts, i) ==
    IF i > Len(scripts) THEN NoneText
    ELSE LET b == scripts[i] IN
         IF b.raw = "bad" THEN JsonLdScan(scripts, i + 1)   \* JSONDecodeError: continue
         ELSE IF b.raw = "none" THEN NoneText               \* TypeError: outer except
         ELSE LET data == IF b.top = "list"
                          THEN (IF b.items # <<>> THEN b.items[1]
                                ELSE Dict("", "", NoGraph))
                          ELSE b.items[1]
              IN IF data.j # "dict" THEN NoneText           \* AttributeError: outer except
                 ELSE IF _is_recipe_schema(data) THEN Str(_format_json_ld_recipe(data))
                 ELSE IF data.graph # NoGraph /\ GraphScan(data.graph, 1).found
                      THEN Str(GraphScan(data.graph, 1).text)
                      ELSE JsonLdScan(scripts, i + 1)

_extract_json_ld(page) == JsonLdScan(page.scripts, 1)

_extract_microdata(page) ==
    IF ~page.microdata.present THEN NoneText
    ELSE IF page.microdata.name = "" THEN NoneText
    ELSE Str(<<"Recipe:", page.microdata.name>>)

\* int(score) after the length penalty
_score_recipe_content(e) ==
    LET score == 2 * e.kw + e.verbs IN
    IF e.length = 0 THEN 0
    ELSE IF e.length < 100 THEN (score * 5) \div 10
    ELSE IF e.length > 10000 THEN (score * 8) \div 10
    ELSE score

\* the running best over the matched elements: [score, elem index]
RECURSIVE BestBlock(_, _, _)
BestBlock(blocks, i, best) ==
    IF i > Len(blocks) THEN best
    ELSE IF _score_recipe_content(blocks[i]) > best.score
         THEN BestBlock(blocks, i + 1,
                        [score |-> _score_recipe_content(blocks[i]), idx |-> i])
         ELSE BestBlock(blocks, i + 1, best)

min_selector_score == 10

_extract_by_selectors(page) ==
    LET best == BestBlock(page.blocks, 1, [score |-> 0, idx |-> 0]) IN
    IF best.idx # 0 /\ best.score > min_selector_score
    THEN Str(page.blocks[best.idx].cleaned)
    ELSE NoneText

_extract_full_text(page) == Str(page.body)

json_ld_confidence == 950
microdata_confidence == 850
css_selectors_confidence == 750
full_text_confidence == 500

Extraction(content, method, confidence) ==
    [content |-> content, extraction_method |-> method, confidence |-> confidence]

\* a variant that tries microdata before the structured data
extract_recipe_content_microdata_first(page) ==
    IF Truthy(_extract_microdata(page))
    THEN Extraction(_extract_microdata(page).text, "microdata", microdata_confidence)
    ELSE IF Truthy(_extract_json_ld(page))
    THEN Extraction(_extract_json_ld(page).text, "json-ld", json_ld_confidence)
    ELSE IF Truthy(_extract_by_selectors(page))
    THEN Extraction(_extract_by_selectors(page).text, "css-selectors", css_selectors_confidence)
    ELSE Extraction(_extract_full_text(page).text, "full-text", full_text_confidence)

extract_recipe_content(page) ==
    IF Truthy(_extract_json_ld(page))
    THEN Extraction(_extract_json_ld(page).text, "json-ld", json_ld_confidence)
    ELSE IF Truthy(_extract_microdata(page))
    THEN Extraction(_extract_microdata(page).text, "microdata", microdata_confidence)
    ELSE IF Truthy(_extract_by_selectors(page))
    THEN Extraction(_extract_by_selectors(page).text, "css-selectors", css_selectors_confidence)
    ELSE Extraction(_extract_full_text(page).text, "full-text", full_text_confidence)

NoPage == [scripts |-> <<>>, microdata |-> [present |-> FALSE, name |-> ""],
           blocks |-> <<>>, body |-> <<>>]

ContentInit ==
    /\ c_pc = "idle"
    /\ c_page = NoPage
    /\ c_result = Extraction(<<>>, "", 0)

extract_recipe_content_call(page) ==
    /\ c_pc = "idle"
    /\ c_pc' = "done"
    /\ c_page' = page
    /\ c_result' = extract_recipe_content(page)
    /\ UNCHANGED notContent

NextContent == \E page \in Pages : extract_recipe_content_call(page)

(***************************************************************************)
(* Texts.  A text is a sequence of characters.                             *)
(***************************************************************************)
UpperCase == <<"A", "B", "C", "D", "E", "F", "G", "H", "I", "J", "K", "L", "M", "N", "O", "P", "Q", "R", "S", "T", "U", "V", "W", "X", "Y", "Z">>
LowerCase == <<"a", "b", "c", "d", "e", "f", "g", "h", "i", "j", "k", "l", "m", "n", "o", "p", "q", "r", "s", "t", "u", "v", "w", "x", "y", "z">>

\* str.lower() of one character
Lower(c) ==
    IF \E i \in 1..26 : UpperCase[i] = c
    THEN LowerCase[CHOOSE i \in 1..26 : UpperCase[i] = c]
    ELSE c

\* str.isspace(), str.isdigit() of one character
IsSpace(c) == c \in {" ", "\n", "\t"}
IsDigit(c) == c \in {"0", "1", "2", "3", "4", "5", "6", "7", "8", "9"}

\* text[i:] (0-based i) and text[:n]
Drop(t, i) == IF i >= Len(t) THEN <<>> ELSE SubSeq(t, i + 1, Len(t))
Take(t, n) == IF n >= Len(t) THEN t ELSE SubSeq(t, 1, n)

\* re.sub(r'\s+', ' ', text)
RECURSIVE SquashSpaces(_)
SquashSpaces(t) ==
    IF t = <<>> THEN <<>>
    ELSE IF IsSpace(t[1])
         THEN IF Len(t) >= 2 /\ IsSpace(t[2])
              THEN SquashSpaces(Tail(t))
              ELSE <<" ">> \o SquashSpaces(Tail(t))
         ELSE <<t[1]>> \o SquashSpaces(Tail(t))

\* str.strip()
RECURSIVE LStrip(_)
LStrip(t) == IF t # <<>> /\ IsSpace(t[1]) THEN LStrip(Tail(t)) ELSE t
RECURSIVE RStrip(_)
RStrip(t) == IF t # <<>> /\ IsSpace(t[Len(t)]) THEN RStrip(SubSeq(t, 1, Len(t) - 1)) ELSE t
Strip(t) == RStrip(LStrip(t))

\* ' '.join(text.split())
JoinSplit(t) == Strip(SquashSpaces(t))

\* does pattern p match text t at its start, ignoring case
StartsWithI(t, p) ==
    /\ Len(t) >= Len(p)
    /\ \A i \in 1..Len(p) : Lower(t[i]) = Lower(p[i])

\* re.sub('a|b|...', '', text, flags=re.IGNORECASE): at each position the first
\* alternative that matches is removed
RECURSIVE RemoveAll(_, _)
RemoveAll(t, alts) ==
    IF t = <<>> THEN <<>>
    ELSE IF \E k \in 1..Len(alts) : StartsWithI(t, alts[k])
         THEN LET k == CHOOSE k \in 1..Len(alts) :
                          /\ StartsWithI(t, alts[k])
                          /\ \A j \in 1..(k - 1) : ~StartsWithI(t, alts[j])
              IN RemoveAll(Drop(t, Len(alts[k])), alts)
         ELSE <<t[1]>> \o RemoveAll(Tail(t), alts)

\* text.split('\n')
RECURSIVE SplitLines(_, _)
SplitLines(t, cur) ==
    IF t = <<>> THEN <<cur>>
    ELSE IF t[1] = "\n" THEN <<cur>> \o SplitLines(Tail(t), <<>>)
         ELSE SplitLines(Tail(t), Append(cur, t[1]))

\* the English alternatives of website_noise_patterns (the model's texts hold
\* no Hebrew, so the two Hebrew patterns never match)
noise_english == << <<"s", "a", "v", "e">>, <<"s", "h", "a", "r", "e">>, <<"r", "a", "t", "e">>, <<"c", "l", "i", "c", "k", " ", "h", "e", "r", "e">>, <<"p", "r", "i", "n", "t", " ", "r", "e", "c", "i", "p", "e">> >>
noise_buttons == << <<"p", "l", "u", "s">>, <<"m", "i", "n", "u", "s">>, <<"+">>, <<"-">> >>

max_length == 20000

\* GeminiService._preprocess_text (texts of the model stay under max_length,
\* so _smart_truncate is never entered)
_preprocess_text(text) ==
    Strip(SquashSpaces(RemoveAll(RemoveAll(JoinSplit(text), noise_english),
                                 noise_buttons)))

\* hashlib.md5(text.encode('utf-8')).hexdigest(): a digest of the text as
\* given; distinct texts of the model have distinct digests
_generate_cache_key(text) == <<"md5", text>>

\* the texts callers pass in
Text_RecipeTitle == <<"R", "e", "c", "i", "p", "e", " ", "T", "i", "t", "l", "e", "\n", "S", "o", "m", "e", " ", "c", "o", "n", "t", "e", "n", "t">>
Text_RecipeTitleSpaced == <<"R", "e", "c", "i", "p", "e", " ", " ", "T", "i", "t", "l", "e", "\n", "S", "o", "m", "e", " ", "c", "o", "n", "t", "e", "n", "t", " ">>
Text_TwoCups == <<"2", " ", "c", "u", "p", "s", " ", "f", "l", "o", "u", "r", "\n", "m", "i", "x">>

Texts == {Text_RecipeTitle, Text_RecipeTitleSpaced, Text_TwoCups}

(***************************************************************************)
(* Recipes (app/models/recipe.py).  An Optional field is [some, v].        *)
(* Confidence scores are counted in thousandths: 850 is 0.85.              *)
(***************************************************************************)

\* a dict's "name": the key is missing, null, or a string
NameMissing == [k |-> "missing", v |-> <<>>]
NameNull == [k |-> "null", v |-> <<>>]
NameStr(t) == [k |-> "str", v |-> t]

Name_Untitled == <<"U", "n", "t", "i", "t", "l", "e", "d", " ", "R", "e", "c", "i", "p", "e">>
Name_ExtractionFailed == <<"R", "e", "c", "i", "p", "e", " ", "E", "x", "t", "r", "a", "c", "t", "i", "o", "n", " ", "F", "a", "i", "l", "e", "d">>
Name_ProcessingError == <<"R", "e", "c", "i", "p", "e", " ", "P", "r", "o", "c", "e", "s", "s", "i", "n", "g", " ", "E", "r", "r", "o", "r">>
Name_ImageFailed == <<"I", "m", "a", "g", "e", " ", "P", "r", "o", "c", "e", "s", "s", "i", "n", "g", " ", "F", "a", "i", "l", "e", "d">>
Name_ImageError == <<"I", "m", "a", "g", "e", " ", "P", "r", "o", "c", "e", "s", "s", "i", "n", "g", " ", "E", "r", "r", "o", "r">>
Name_Cached == <<"C", "a", "c", "h", "e", "d", " ", "R", "e", "c", "i", "p", "e">>
Name_Full == <<"F", "u", "l", "l", " ", "R", "e", "c", "i", "p", "e">>

Ingredient(item, amount, unit) == [item |-> item, amount |-> amount, unit |-> unit]
Stage(title, instructions) == [title |-> title, instructions |-> instructions]

\* a dict of recipe fields: what json.loads gives, what model_dump gives
\* (totalTime added), what the cache holds (confidence_score added)
RecipeDict(name, ingredients, instructions, stages, prepTime, cookTime, servings, mainIngredient, tags) ==
    [name |-> name, ingredients |-> ingredients, instructions |-> instructions,
     stages |-> stages, prepTime |-> prepTime, cookTime |-> cookTime,
     servings |-> servings, mainIngredient |-> mainIngredient, tags |-> tags,
     totalTime |-> NilInt, confidence_score |-> NilInt]

Flour == Ingredient("flour", "2", "cups")
Sugar == Ingredient("sugar", "1", "cup")
Eggs == Ingredient("eggs", "3", "units")

Dict_Simple ==
    RecipeDict(NameStr(Name_Cached), <<>>, Some(<<"Cached step">>), NilSeq,
               NilInt, NilInt, NilInt, NilSeq, <<>>)
Dict_Untitled ==
    RecipeDict(NameStr(Name_Untitled), <<Flour, Sugar, Eggs>>,
               Some(<<"mix", "bake", "cool">>), NilSeq,
               Some(15), NilInt, NilInt, NilSeq, <<>>)
Dict_Full ==
    RecipeDict(NameStr(Name_Full),
               <<Flour, Sugar, Eggs, Flour, Sugar, Eggs, Flour, Sugar>>,
               NilSeq, Some(<<Stage("dough", <<"mix">>), Stage("bake", <<"bake">>)>>),
               Some(15), Some(30), Some(4), Some(<<"flour">>), <<"dessert">>)
Dict_Both ==
    RecipeDict(NameStr(Name_Cached), <<Flour>>, Some(<<"mix">>),
               Some(<<Stage("dough", <<"mix">>)>>),
               NilInt, NilInt, NilInt, NilSeq, <<>>)
Dict_Neither ==
    RecipeDict(NameStr(Name_Cached), <<Flour>>, NilSeq, NilSeq,
               NilInt, NilInt, NilInt, NilSeq, <<>>)
Dict_NoName ==
    RecipeDict(NameMissing, <<Flour>>, Some(<<"mix">>), NilSeq,
               NilInt, NilInt, NilInt, NilSeq, <<>>)

RawDicts == {Dict_Simple, Dict_Untitled, Dict_Full, Dict_Both, Dict_Neither, Dict_NoName}

\* a variant that lets stages and instructions come together
check_instructions_format_allows_both(d) ==
    ~(~d.stages.some /\ ~d.instructions.some)

\* RecipeBase.check_instructions_format
check_instructions_format(d) ==
    /\ ~(~d.stages.some /\ ~d.instructions.some)
    /\ ~(d.stages.some /\ d.instructions.some)

\* RecipeBase(**d) validates: name is a required str, then the model validator
RecipeBaseValid(d) == d.name.k = "str" /\ check_instructions_format(d)

\* a variant in which a totalTime passed by the caller is kept
totalTime_supplied_wins(d) ==
    IF d.totalTime.some THEN d.totalTime
    ELSE IF ~d.prepTime.some /\ ~d.cookTime.some THEN NilInt
    ELSE Some((IF d.prepTime.some THEN d.prepTime.v ELSE 0)
              + (IF d.cookTime.some THEN d.cookTime.v ELSE 0))

\* RecipeBase.totalTime
totalTime(d) ==
    IF ~d.prepTime.some /\ ~d.cookTime.some THEN NilInt
    ELSE Some((IF d.prepTime.some THEN d.prepTime.v ELSE 0)
              + (IF d.cookTime.some THEN d.cookTime.v ELSE 0))

\* RecipeBase(**d).model_dump() of a valid d
model_dump(d) == [d EXCEPT !.totalTime = totalTime(d), !.confidence_score = NilInt]

\* the Recipe model: the fields, an id and a creation time; keys that are
\* no field of the model (confidence_score, a supplied totalTime) are ignored
RecipeObject(id, d) ==
    [id |-> id, name |-> d.name.v, ingredients |-> d.ingredients,
     instructions |-> d.instructions, stages |-> d.stages,
     prepTime |-> d.prepTime, cookTime |-> d.cookTime, servings |-> d.servings,
     mainIngredient |-> d.mainIngredient, tags |-> d.tags,
     totalTime |-> totalTime(d)]

MinimalRecipe(id, name, instruction) ==
    [id |-> id, name |-> name, ingredients |-> <<>>,
     instructions |-> Some(<<instruction>>), stages |-> NilSeq,
     prepTime |-> NilInt, cookTime |-> NilInt, servings |-> NilInt,
     mainIngredient |-> NilSeq, tags |-> <<>>, totalTime |-> NilInt]

\* RecipeResponse
NoRecipe == MinimalRecipe(0, <<>>, "")
NoResponse == [recipe |-> NoRecipe, confidence_score |-> 0 - 1]
Response(recipe, confidence_score) ==
    [recipe |-> recipe, confidence_score |-> confidence_score]

\* GeminiService._convert_to_recipe_model: [raised, recipe].  The except
\* clause builds the minimal recipe with data.get("name", default); a name
\* that is present but no string fails that construction too.
_convert_to_recipe_model(id, data) ==
    IF RecipeBaseValid(data)
    THEN [raised |-> FALSE, recipe |-> RecipeObject(id, data)]
    ELSE IF data.name.k = "null"
    THEN [raised |-> TRUE, recipe |-> MinimalRecipe(id, <<>>, "")]
    ELSE [raised |-> FALSE,
          recipe |-> MinimalRecipe(id,
                        IF data.name.k = "missing" THEN Name_ProcessingError
                        ELSE data.name.v,
                        "Error processing recipe details")]

base_confidence == 800
confidence_cap == 980

Min(a, b) == IF a <= b THEN a ELSE b
Max(a, b) == IF a >= b THEN a ELSE b

\* a variant without the cap
_calculate_confidence_uncapped(result) ==
    base_confidence
    + (IF result.name.k = "str" /\ result.name.v # <<>>
          /\ result.name.v # Name_Untitled THEN 50 ELSE 0)
    + (IF Len(result.ingredients) >= 3 THEN 50 ELSE 0)
    + (IF Len(result.ingredients) >= 8 THEN 50 ELSE 0)
    + (IF result.instructions.some /\ Len(result.instructions.v) >= 3 THEN 50 ELSE 0)
    + (IF result.stages.some /\ Len(result.stages.v) >= 2 THEN 100 ELSE 0)
    + 30 * ((IF result.prepTime.some THEN 1 ELSE 0)
            + (IF result.cookTime.some THEN 1 ELSE 0))
    + (IF result.servings.some THEN 20 ELSE 0)
    + (IF result.mainIngredient.some /\ result.mainIngredient.v # <<>> THEN 20 ELSE 0)
    + (IF Len(result.tags) > 0 THEN 20 ELSE 0)

\* GeminiService._calculate_confidence
_calculate_confidence(result) ==
    LET named == IF result.name.k = "str" /\ result.name.v # <<>>
                    /\ result.name.v # Name_Untitled THEN 50 ELSE 0
        n == Len(result.ingredients)
        ingr == (IF n >= 3 THEN 50 ELSE 0) + (IF n >= 8 THEN 50 ELSE 0)
        instr == IF result.instructions.some /\ Len(result.instructions.v) >= 3
                 THEN 50 ELSE 0
        stg == IF result.stages.some /\ Len(result.stages.v) >= 2 THEN 100 ELSE 0
        times == 30 * ((IF result.prepTime.some THEN 1 ELSE 0)
                       + (IF result.cookTime.some THEN 1 ELSE 0))
        serv == IF result.servings.some THEN 20 ELSE 0
        main == IF result.mainIngredient.some /\ result.mainIngredient.v # <<>>
                THEN 20 ELSE 0
        tags == IF Len(result.tags) > 0 THEN 20 ELSE 0
    IN Min(confidence_cap,
           base_confidence + named + ingr + instr + stg + times + serv + main + tags)

text_fallback_confidence == 200

\* GeminiService._create_fallback_result, on the preprocessed text
FallbackName(lines, i) ==
    LET line == Strip(lines[i]) IN
    3 < Len(line) /\ Len(line) < 100
    /\ ~\E j \in 1..Min(10, Len(line)) : IsDigit(line[j])

_create_fallback_result(text) ==
    LET lines == Take(SplitLines(text, <<>>), 3)
        name == IF \E i \in 1..Len(lines) : FallbackName(lines, i)
                THEN Strip(lines[CHOOSE i \in 1..Len(lines) :
                                   /\ FallbackName(lines, i)
                                   /\ \A j \in 1..(i - 1) : ~FallbackName(lines, j)])
                ELSE Name_ExtractionFailed
    IN RecipeDict(NameStr(name),
                  <<Ingredient("Ingredient extraction failed", "N/A", "N/A")>>,
                  Some(<<"Recipe processing failed. Please try again with simpler formatting.">>),
                  NilSeq, NilInt, NilInt, NilInt, NilSeq, <<"extraction-failed">>)

(***************************************************************************)
(* Images (ImageProcessingService).  An image is its file format, its      *)
(* size in bytes, its dimensions and its picture; format "none" is data    *)
(* PIL cannot open.  The images of the model scale to whole numbers.       *)
(***************************************************************************)
Image(format, bytes, width, height, picture) ==
    [format |-> format, bytes |-> bytes, width |-> width, height |-> height,
     picture |-> picture]

Img_Card == Image("JPEG", 300000, 1600, 1200, "card")
Img_Scan == Image("PNG", 3000000, 4096, 4096, "scan")
Img_Thumb == Image("JPEG", 9000, 200, 200, "thumb")
Img_Strip == Image("GIF", 90000, 300, 1200, "strip")
Img_Bmp == Image("BMP", 300000, 1600, 1200, "card")
Img_Huge == Image("JPEG", 5000000, 1600, 1200, "poster")
Img_Broken == Image("none", 100, 0, 0, "")
NoImage == Image("none", 0, 0, 0, "")

Images == {Img_Card, Img_Scan, Img_Thumb, Img_Strip, Img_Bmp, Img_Huge, Img_Broken}

max_image_size == 4194304
supported_formats == {"JPEG", "JPG", "PNG", "WEBP", "GIF"}
max_dimension == 2048

\* Image.thumbnail((max_dimension, max_dimension)): scale to fit, keeping
\* the aspect ratio
thumbnail(width, height) ==
    IF Max(width, height) > max_dimension
    THEN <<Max(1, (width * max_dimension) \div Max(width, height)),
           Max(1, (height * max_dimension) \div Max(width, height))>>
    ELSE <<width, height>>

\* ImageProcessingService._calculate_image_quality, in thousandths
_calculate_image_quality(size, original_size) ==
    LET width == size[1]
        height == size[2]
        pixel_count == width * height
        long == Max(width, height)
        short == Min(width, height)
        resolution == IF pixel_count >= 1000000 THEN 200
                      ELSE IF pixel_count >= 500000 THEN 100
                      ELSE IF pixel_count < 100000 THEN 0 - 200
                      ELSE 0
        aspect == IF 12 * short <= 10 * long /\ long <= 2 * short THEN 100
                  ELSE IF long > 3 * short THEN 0 - 100
                  ELSE 0
        reduction == IF size # original_size
                        /\ 2 * pixel_count < original_size[1] * original_size[2]
                     THEN 0 - 100 ELSE 0
    IN Max(100, Min(1000, 500 + resolution + aspect + reduction))

\* ImageProcessingService._process_image: [raised, data, quality_score]
NoProcessed == [raised |-> TRUE, data |-> <<>>, quality_score |-> 0]

\* a variant without the size check
_process_image_any_size(image) ==
    IF image.format = "none" THEN NoProcessed
    ELSE IF image.format \notin supported_formats THEN NoProcessed
    ELSE LET original_size == <<image.width, image.height>>
             size == thumbnail(image.width, image.height)
         IN [raised |-> FALSE,
             data |-> <<"JPEG", image.picture, size>>,
             quality_score |-> _calculate_image_quality(size, original_size)]

_process_image(image) ==
    IF image.bytes > max_image_size THEN NoProcessed
    ELSE IF image.format = "none" THEN NoProcessed
    ELSE IF image.format \notin supported_formats THEN NoProcessed
    ELSE LET original_size == <<image.width, image.height>>
             size == thumbnail(image.width, image.height)
         IN [raised |-> FALSE,
             data |-> <<"JPEG", image.picture, size>>,
             quality_score |-> _calculate_image_quality(size, original_size)]

_generate_image_cache_key(data) == <<"md5", data>>

image_confidence_cap == 900
image_confidence_floor == 100

\* a variant that scales the text-path confidence by the image quality
_calculate_image_confidence_scaled(result, image_quality) ==
    Min(image_confidence_cap, (_calculate_confidence(result) * image_quality) \div 1000)

\* ImageProcessingService._calculate_image_confidence, in thousandths
_calculate_image_confidence(result, image_quality) ==
    LET base == (600 * image_quality) \div 1000
        named == IF result.name.k = "str" /\ result.name.v # <<>>
                    /\ result.name.v # Name_Untitled THEN 50 ELSE 0
        n == Len(result.ingredients)
        ingr == (IF n >= 3 THEN 100 ELSE 0) + (IF n >= 6 THEN 50 ELSE 0)
        instr == IF result.instructions.some /\ Len(result.instructions.v) >= 2
                 THEN 100 ELSE 0
        stg == IF result.stages.some /\ Len(result.stages.v) >= 2 THEN 150 ELSE 0
        times == 40 * ((IF result.prepTime.some THEN 1 ELSE 0)
                       + (IF result.cookTime.some THEN 1 ELSE 0))
    IN Min(image_confidence_cap,
           Max(image_confidence_floor, base + named + ingr + instr + stg + times))

image_fallback_confidence == 100

\* a variant shaped like the text fallback
_create_image_fallback_result_as_text ==
    RecipeDict(NameStr(Name_ImageFailed),
               <<Ingredient("Ingredient extraction failed", "N/A", "N/A")>>,
               Some(<<"Image processing failed. Please try again with a clearer image.">>),
               NilSeq, NilInt, NilInt, NilInt, NilSeq, <<"extraction-failed">>)

\* ImageProcessingService._create_image_fallback_result
_create_image_fallback_result ==
    RecipeDict(NameStr(Name_ImageFailed), <<>>,
               Some(<<"Image processing failed. Please try again with a clearer image.">>),
               NilSeq, NilInt, NilInt, NilInt, NilSeq, <<"image-extraction-failed">>)

\* ImageProcessingService._convert_to_recipe_model
_convert_to_recipe_model_image(id, data) ==
    IF RecipeBaseValid(data)
    THEN [raised |-> FALSE, recipe |-> RecipeObject(id, data)]
    ELSE IF data.name.k = "null"
    THEN [raised |-> TRUE, recipe |-> MinimalRecipe(id, <<>>, "")]
    ELSE [raised |-> FALSE,
          recipe |-> MinimalRecipe(id,
                        IF data.name.k = "missing" THEN Name_ImageError
                        ELSE data.name.v,
                        "Error processing recipe image")]

(***************************************************************************)
(* TextProcessor.  process_text reads a text with regular expressions; a   *)
(* text is represented here by what those extractors find in it: whether   *)
(* a title, how many ingredients, how many instructions or stages, which   *)
(* times, whether servings.  _extract_instructions gives stages or a flat  *)
(* list, never both.                                                       *)
(***************************************************************************)
Parse(titled, ingredients, instructions, stages, prep, cook, servings) ==
    [titled |-> titled, ingredients |-> ingredients, instructions |-> instructions,
     stages |-> stages, prep |-> prep, cook |-> cook, servings |-> servings]

NoParse == Parse(FALSE, 0, 0, 0, FALSE, FALSE, FALSE)

Parses ==
    { NoParse,
      Parse(TRUE, 5, 0, 0, FALSE, FALSE, TRUE),
      Parse(TRUE, 3, 4, 0, FALSE, FALSE, FALSE),
      Parse(TRUE, 3, 0, 2, TRUE, FALSE, FALSE),
      Parse(FALSE, MaxItems, MaxItems, 0, TRUE, TRUE, TRUE),
      Parse(TRUE, MaxItems, MaxItems, 0, TRUE, TRUE, TRUE),
      Parse(TRUE, 2, 0, 4, TRUE, FALSE, TRUE) }

Name_Parsed == <<"P", "a", "r", "s", "e", "d", " ", "R", "e", "c", "i", "p", "e">>

\* the Recipe that process_text builds from what it found
ParsedRecipe(id, parsed) ==
    LET d == RecipeDict(NameStr(IF parsed.titled THEN Name_Parsed ELSE Name_Untitled),
                 [i \in 1..parsed.ingredients |-> Flour],
                 IF parsed.stages > 0 THEN NilSeq
                 ELSE Some([i \in 1..parsed.instructions |-> "step"]),
                 IF parsed.stages > 0
                 THEN Some([i \in 1..parsed.stages |-> Stage("stage", <<"step">>)])
                 ELSE NilSeq,
                 IF parsed.prep THEN Some(15) ELSE NilInt,
                 IF parsed.cook THEN Some(30) ELSE NilInt,
                 IF parsed.servings THEN Some(4) ELSE NilInt,
                 IF parsed.ingredients > 0 THEN Some(<<"flour">>) ELSE NilSeq,
                 <<>>)
    IN RecipeObject(id, d)

\* TextProcessor._calculate_confidence, in thousandths
_calculate_confidence_text(recipe) ==
    LET named == IF recipe.name # <<>> /\ recipe.name # Name_Untitled THEN 100 ELSE 0
        ingr == IF Len(recipe.ingredients) > 0
                THEN Min(200, Len(recipe.ingredients) * 20) ELSE 0
        steps == IF recipe.instructions.some /\ Len(recipe.instructions.v) > 0
                 THEN Min(200, Len(recipe.instructions.v) * 20)
                 ELSE IF recipe.stages.some /\ Len(recipe.stages.v) > 0
                 THEN Min(200, Len(recipe.stages.v) * 50)
                 ELSE 0
        times == (IF recipe.prepTime.some THEN 50 ELSE 0)
                 + (IF recipe.cookTime.some THEN 50 ELSE 0)
                 + (IF recipe.totalTime.some THEN 50 ELSE 0)
        serv == IF recipe.servings.some THEN 50 ELSE 0
    IN Min(500 + named + ingr + steps + times + serv, 1000)

\* TextProcessor.process_text
process_text(id, parsed) ==
    Response(ParsedRecipe(id, parsed),
             _calculate_confidence_text(ParsedRecipe(id, parsed)))

(***************************************************************************)
(* Calls in flight.  Every call of an extraction entry point is a          *)
(* coroutine; it runs alone between two awaits, so one action is the code  *)
(* from one await to the next.                                             *)
(***************************************************************************)
Reqs == {1, 2}

\* UrlProcessor.process_url: the fetch raised (success False), or the fetched
\* page went through extract_recipe_content
NoUrlResult == [success |-> FALSE, extraction_method |-> "", confidence |-> 0]
process_url(fetched, page) ==
    IF ~fetched THEN NoUrlResult
    ELSE [success |-> TRUE,
          extraction_method |-> extract_recipe_content(page).extraction_method,
          confidence |-> extract_recipe_content(page).confidence]

\* one page for each extraction method
UrlPages ==
    {CHOOSE page \in Pages : extract_recipe_content(page).extraction_method = m :
        m \in {"json-ld", "microdata", "css-selectors", "full-text"}}

IdleReq ==
    [pc |-> "idle",            \* idle | awaiting | sleeping | done
     kind |-> "none",          \* which entry point was called
     text |-> <<>>,            \* the text argument
     image |-> NoImage,        \* the image_data argument
     processed_image |-> NoProcessed,
     pages |-> <<>>,           \* the image_data argument when it is a list
     page |-> 0,               \* how many pages the OCR loop has been through
     extracted_texts |-> <<>>, \* the page numbers that gave text, in order
     page_results |-> <<>>,    \* history: what became of each page
     ocr_events |-> <<>>,      \* history: the OCR calls and backoff waits, in the order they were made
     page_texts |-> <<>>,      \* the texts of the pages in extracted_texts
     consolidated_text |-> <<>>, \* the lines of the local consolidated_text
     url_result |-> NoUrlResult,
     original_confidence |-> 0 - 1,
     use_cache |-> FALSE,      \* options.get("use_cache", True)
     options_max_retries |-> NilInt, \* options["max_retries"], if given
     max_retries |-> 0,        \* options.get("max_retries", 3)
     last_error |-> "None",    \* the local last_error: what the last failed attempt raised
     attempt |-> 0,            \* the loop variable
     calls |-> 0,              \* history: generate_content calls issued
     sleeps |-> <<>>,          \* history: the asyncio.sleep waits
     inserted |-> 0,           \* history: this call's place among the writes to self.cache (0: wrote nothing)
     outcome |-> "pending",    \* hit | success | fallback | None | raised
     response |-> NoResponse,  \* the RecipeResponse returned
     after |-> {}]             \* history: the calls that had returned when this one was made

ExtractInit ==
    /\ api_key \in BOOLEAN
    /\ reqs = [r \in Reqs |-> IdleReq]
    /\ g_cache = <<>>
    /\ i_cache = <<>>

\* Calls touch each other only through a cache: GeminiService.extract_recipe
\* calls share g_cache, single-image calls share i_cache, the other entry
\* points keep nothing.  A run follows the calls that share one cache,
\* numbered in the order they are made, or one call of an entry point that
\* keeps nothing.
CachedKinds == {"text", "image"}

IsNextCall(r, kind) ==
    /\ reqs[r].pc = "idle"
    /\ \A s \in Reqs : s < r =>
            reqs[s].pc # "idle" /\ reqs[s].kind = kind /\ kind \in CachedKinds

\* dict.get / dict[key] = value, on a cache kept as a function over its keys
cache_has(cache, key) == key \in DOMAIN cache

\* a variant that stores nothing
cache_put_nothing(cache, key, value) == cache

\* a variant in which the fallback is stored like a result
cache_after_fallback_stored(cache, key, fallback_result) ==
    [k \in DOMAIN cache \cup {key} |-> IF k = key THEN fallback_result ELSE cache[k]]

\* self.cache when the last attempt has failed: the else branch builds the
\* fallback and returns it, it has no assignment to self.cache
cache_after_fallback(cache, key, fallback_result) == cache

\* a variant that keeps the entry a key already has
cache_put_first_wins(cache, key, value) ==
    [k \in DOMAIN cache \cup {key} |->
        IF k \in DOMAIN cache THEN cache[k] ELSE value]

cache_put(cache, key, value) ==
    [k \in DOMAIN cache \cup {key} |-> IF k = key THEN value ELSE cache[k]]

\* what one generate_content call can come to
FailingReplies == {"error", "empty", "blocked", "unparseable", "repaired_str"}
Replies ==
    {[kind |-> k, dict |-> Dict_Simple] : k \in FailingReplies}
    \cup {[kind |-> k, dict |-> d] : k \in {"json", "repaired"}, d \in RawDicts}

\* the try block of GeminiService.extract_recipe reaches its return:
\* response.text is non-empty, the finish reason is not a raising one,
\* json.loads (or repair_json) gives a dict, and RecipeBase accepts it
AttemptSucceeds(reply) ==
    /\ reply.kind \in {"json", "repaired"}
    /\ RecipeBaseValid(reply.dict)

gemini_retry_delay == 1
default_max_retries == 3

\* what `except Exception as e` catches after a failed attempt, by whether
\* it is the ValidationError of RecipeBase(**result_json) or an error raised
\* before the schema is applied (the API call, an empty or blocked response,
\* JSON that cannot be read)
ErrorOf(reply) ==
    IF reply.kind \in FailingReplies THEN "Exception" ELSE "ValidationError"

\* a variant that waits the same time after every attempt
wait_time_constant(delay, attempt) == delay

\* wait_time = retry_delay * (2 ** attempt)
wait_time(delay, attempt) == delay * Pow2(attempt)

Returned(req, outcome, response) ==
    [req EXCEPT !.pc = "done", !.outcome = outcome, !.response = response]

\* uuid4 gives every recipe its own id; a call builds one recipe, so the
\* call's number stands for it
uuid4(r) == r

\* the locals processed_text and fallback_result of extract_recipe,
\* tabulated over the texts
processed_text_of == [text \in Texts |-> _preprocess_text(text)]
fallback_result_of == [text \in Texts |-> _create_fallback_result(processed_text_of[text])]

\* a variant in which assembly writes id and creationTime into the dict it
\* was given
data_after_convert_in_place(data) ==
    [id |-> "uuid4", creationTime |-> "now"] @@ data

\* the dict passed to _convert_to_recipe_model, as the call leaves it: the
\* update is made on recipe_data = data.copy(), and Recipe(**recipe_data)
\* builds new objects, so the caller's dict is as it was
data_after_convert(data) == data

\* GeminiService.extract_recipe, from the call to its first await
extract_recipe(r, text, use_cache, options_max_retries) ==
    /\ IsNextCall(r, "text")
    /\ LET key == _generate_cache_key(text)
           max_retries == IF options_max_retries.some THEN options_max_retries.v
                          ELSE default_max_retries
           req == [reqs[r] EXCEPT !.kind = "text", !.text = text,
                                  !.use_cache = use_cache,
                                  !.options_max_retries = options_max_retries,
                                  !.max_retries = max_retries,
                                  !.after = {s \in Reqs : reqs[s].pc = "done"}]
       IN /\ reqs' = [reqs EXCEPT ![r] =
                IF ~api_key
                THEN Returned(req, "raised", NoResponse)
                ELSE IF use_cache /\ cache_has(g_cache, key)
                THEN Returned(req, "hit",
                        Response(_convert_to_recipe_model(uuid4(r), g_cache[key]).recipe,
                                 IF g_cache[key].confidence_score.some
                                 THEN g_cache[key].confidence_score.v ELSE 900))
                ELSE IF max_retries <= 0
                THEN Returned(req, "None", NoResponse)
                ELSE [req EXCEPT !.pc = "awaiting", !.calls = 1]]
          \* on a hit the cached dict itself is what assembly is given
          /\ g_cache' =
                IF api_key /\ use_cache /\ cache_has(g_cache, key)
                THEN [g_cache EXCEPT ![key] = data_after_convert(g_cache[key])]
                ELSE g_cache
    /\ UNCHANGED <<api_key, i_cache>>
    /\ UNCHANGED notExtract

\* GeminiService.extract_recipe, from the model's reply to the next await
\* or the return
extract_recipe_reply(r, reply) ==
    /\ reqs[r].pc = "awaiting" /\ reqs[r].kind = "text"
    /\ LET req == reqs[r]
           result == model_dump(reply.dict)
           confidence_score == _calculate_confidence(result)
           fallback_result == fallback_result_of[req.text]
       IN /\ IF AttemptSucceeds(reply)
             THEN /\ reqs' = [reqs EXCEPT ![r] =
                        Returned([req EXCEPT !.inserted =
                                    IF req.use_cache
                                    THEN 1 + Cardinality({s \in Reqs : reqs[s].inserted > 0})
                                    ELSE 0],
                            "success",
                            Response(_convert_to_recipe_model(uuid4(r), result).recipe,
                                     confidence_score))]
                  /\ g_cache' =
                        IF req.use_cache
                        THEN cache_put(g_cache, _generate_cache_key(req.text),
                                [result EXCEPT !.confidence_score = Some(confidence_score)])
                        ELSE g_cache
             ELSE /\ g_cache' =
                        IF req.attempt < req.max_retries - 1 \/ ~req.use_cache
                        THEN g_cache
                        ELSE cache_after_fallback(g_cache, _generate_cache_key(req.text),
                                                  fallback_result)
                  /\ reqs' = [reqs EXCEPT ![r] =
                        IF req.attempt < req.max_retries - 1
                        THEN [req EXCEPT !.pc = "sleeping",
                                  !.last_error = ErrorOf(reply),
                                  !.sleeps = Append(@, wait_time(gemini_retry_delay, req.attempt))]
                        ELSE Returned([req EXCEPT !.last_error = ErrorOf(reply)],
                                "fallback",
                                Response(_convert_to_recipe_model(uuid4(r), fallback_result).recipe,
                                         text_fallback_confidence))]
    /\ UNCHANGED <<api_key, i_cache>>
    /\ UNCHANGED notExtract

\* GeminiService.extract_recipe, from the end of asyncio.sleep to the await
\* of the next attempt's generate_content
extract_recipe_retry(r) ==
    /\ reqs[r].pc = "sleeping" /\ reqs[r].kind = "text"
    /\ reqs' = [reqs EXCEPT ![r] = [@ EXCEPT !.pc = "awaiting",
                                            !.attempt = @ + 1, !.calls = @ + 1]]
    /\ UNCHANGED <<api_key, g_cache, i_cache>>
    /\ UNCHANGED notExtract

NextGemini ==
    \E r \in Reqs :
        \/ \E text \in Texts, use_cache \in BOOLEAN,
              options_max_retries \in {NilInt} \cup {Some(n) : n \in 0..MaxAttempts} :
               extract_recipe(r, text, use_cache, options_max_retries)
        \/ \E reply \in Replies : extract_recipe_reply(r, reply)
        \/ extract_recipe_retry(r)

\* what one generate_content call on an image can come to: the image path
\* does not read the finish reason, a reply is what its text is
ImageReplies == {reply \in Replies : reply.kind # "blocked"}

\* the try block of _extract_recipe_from_single_image reaches its return:
\* json.loads gives a dict (nothing repairs a malformed text) and
\* RecipeBase accepts it
ImageAttemptSucceeds(reply) == reply.kind = "json" /\ RecipeBaseValid(reply.dict)

image_retry_delay == 2

\* ImageProcessingService.extract_recipe_from_image with one image, from the
\* call to the first await of _extract_recipe_from_single_image
_extract_recipe_from_single_image(r, image, use_cache, max_retries) ==
    /\ IsNextCall(r, "image")
    /\ LET processed_image == _process_image(image)
           key == _generate_image_cache_key(processed_image.data)
           req == [reqs[r] EXCEPT !.kind = "image", !.image = image,
                                  !.processed_image = processed_image,
                                  !.use_cache = use_cache,
                                  !.max_retries = max_retries,
                                  !.after = {s \in Reqs : reqs[s].pc = "done"}]
       IN /\ reqs' = [reqs EXCEPT ![r] =
                IF ~api_key \/ processed_image.raised
                THEN Returned([req EXCEPT !.processed_image = NoProcessed],
                              "raised", NoResponse)
                ELSE IF use_cache /\ cache_has(i_cache, key)
                THEN Returned(req, "hit",
                        Response(_convert_to_recipe_model_image(uuid4(r), i_cache[key]).recipe,
                                 IF i_cache[key].confidence_score.some
                                 THEN i_cache[key].confidence_score.v ELSE 800))
                ELSE IF max_retries <= 0
                THEN Returned(req, "None", NoResponse)
                ELSE [req EXCEPT !.pc = "awaiting", !.calls = 1]]
    /\ UNCHANGED <<api_key, g_cache, i_cache>>
    /\ UNCHANGED notExtract

\* _extract_recipe_from_single_image, from the model's reply to the next
\* await or the return
_extract_recipe_from_single_image_reply(r, reply) ==
    /\ reqs[r].pc = "awaiting" /\ reqs[r].kind = "image"
    /\ LET req == reqs[r]
           result == model_dump(reply.dict)
           confidence_score ==
               _calculate_image_confidence(result, req.processed_image.quality_score)
       IN /\ IF ImageAttemptSucceeds(reply)
             THEN /\ reqs' = [reqs EXCEPT ![r] =
                        Returned(req, "success",
                            Response(_convert_to_recipe_model_image(uuid4(r), result).recipe,
                                     confidence_score))]
                  /\ i_cache' =
                        IF req.use_cache
                        THEN cache_put(i_cache,
                                _generate_image_cache_key(req.processed_image.data),
                                [result EXCEPT !.confidence_score = Some(confidence_score)])
                        ELSE i_cache
             ELSE /\ i_cache' =
                        IF req.attempt < req.max_retries - 1 \/ ~req.use_cache
                        THEN i_cache
                        ELSE cache_after_fallback(i_cache,
                                _generate_image_cache_key(req.processed_image.data),
                                _create_image_fallback_result)
                  /\ reqs' = [reqs EXCEPT ![r] =
                        IF req.attempt < req.max_retries - 1
                        THEN [req EXCEPT !.pc = "sleeping",
                                  !.sleeps = Append(@, image_retry_delay * Pow2(req.attempt))]
                        ELSE Returned(req, "fallback",
                                Response(_convert_to_recipe_model_image(uuid4(r),
                                             _create_image_fallback_result).recipe,
                                         image_fallback_confidence))]
    /\ UNCHANGED <<api_key, g_cache>>
    /\ UNCHANGED notExtract

\* _extract_recipe_from_single_image, from the end of asyncio.sleep to the
\* await of the next attempt's generate_content
_extract_recipe_from_single_image_retry(r) ==
    /\ reqs[r].pc = "sleeping" /\ reqs[r].kind = "image"
    /\ reqs' = [reqs EXCEPT ![r] = [@ EXCEPT !.pc = "awaiting",
                                            !.attempt = @ + 1, !.calls = @ + 1]]
    /\ UNCHANGED <<api_key, g_cache, i_cache>>
    /\ UNCHANGED notExtract

NextImage ==
    \E r \in Reqs :
        \/ \E image \in Images, use_cache \in BOOLEAN, max_retries \in 0..MaxAttempts :
               _extract_recipe_from_single_image(r, image, use_cache, max_retries)
        \/ \E reply \in ImageReplies : _extract_recipe_from_single_image_reply(r, reply)
        \/ _extract_recipe_from_single_image_retry(r)

(***************************************************************************)
(* The router (app/routers/recipe.py): text and url entry points.          *)
(***************************************************************************)
URL_EXTRACTION_CONFIDENCE_WEIGHT == 3
AI_PROCESSING_CONFIDENCE_WEIGHT == 7
WeightScale == 10

\* the weights are tenths; every score of the model is a whole number of
\* hundredths, so the division is exact
combined_confidence(url_confidence, original_confidence) ==
    (url_confidence * URL_EXTRACTION_CONFIDENCE_WEIGHT
     + original_confidence * AI_PROCESSING_CONFIDENCE_WEIGHT) \div WeightScale

\* the variant without the outer min
blended_confidence_unclamped(url_confidence, original_confidence) ==
    combined_confidence(url_confidence, original_confidence)

blended_confidence(url_confidence, original_confidence) ==
    Min(combined_confidence(url_confidence, original_confidence), original_confidence)

\* POST /text
process_recipe_text(r, parsed) ==
    /\ IsNextCall(r, "router-text")
    /\ reqs' = [reqs EXCEPT ![r] =
            Returned([@ EXCEPT !.kind = "router-text",
                               !.after = {s \in Reqs : reqs[s].pc = "done"},
                               !.original_confidence =
                                   process_text(uuid4(r), parsed).confidence_score],
                     "success", process_text(uuid4(r), parsed))]
    /\ UNCHANGED <<api_key, g_cache, i_cache>>
    /\ UNCHANGED notExtract

\* POST /url
process_recipe_url(r, fetched, page, parsed) ==
    /\ IsNextCall(r, "router-url")
    /\ LET url_result == process_url(fetched, page)
           result == process_text(uuid4(r), parsed)
           req == [reqs[r] EXCEPT !.kind = "router-url", !.url_result = url_result,
                                  !.after = {s \in Reqs : reqs[s].pc = "done"}]
       IN reqs' = [reqs EXCEPT ![r] =
            IF ~url_result.success
            THEN Returned(req, "raised", NoResponse)
            ELSE Returned([req EXCEPT !.original_confidence = result.confidence_score],
                          "success",
                          Response(result.recipe,
                                   blended_confidence(url_result.confidence,
                                                      result.confidence_score)))]
    /\ UNCHANGED <<api_key, g_cache, i_cache>>
    /\ UNCHANGED notExtract

NextRouter ==
    \E r \in Reqs :
        \/ \E parsed \in Parses : process_recipe_text(r, parsed)
        \/ \E fetched \in BOOLEAN, page \in UrlPages, parsed \in Parses :
               process_recipe_url(r, fetched, page, parsed)

(***************************************************************************)
(* ImageProcessingService with a list of images.                           *)
(***************************************************************************)
OcrReplies == {"text", "blank", "error"}

\* _extract_text_from_image after _process_image: "text", "" or None
RECURSIVE OcrLoop(_, _, _)
OcrLoop(replies, attempt, max_retries) ==
    IF attempt >= max_retries THEN "None"
    ELSE IF replies[attempt + 1] = "text" THEN "text"
    ELSE IF replies[attempt + 1] = "blank" THEN ""
    ELSE IF attempt < max_retries - 1 THEN OcrLoop(replies, attempt + 1, max_retries)
    ELSE ""

\* a variant that sends the image to the OCR without validating it
_extract_text_from_image_unvalidated(image, max_retries, replies) ==
    OcrLoop(replies, 0, max_retries)

\* whether the try block of the page loop appends the page: _process_image
\* raising, and None.strip() when the loop never ran, are caught there
_extract_text_from_image(image, max_retries, replies) ==
    IF _process_image(image).raised THEN "raised"
    ELSE OcrLoop(replies, 0, max_retries)

\* history: what became of a page: "invalid" (_process_image raised),
\* "ocr-failed" (every OCR attempt raised), or what the OCR returned
PageResult(image, max_retries, replies) ==
    IF _process_image(image).raised THEN "invalid"
    ELSE IF max_retries >= 1 /\ \A k \in 1..max_retries : replies[k] = "error"
    THEN "ocr-failed"
    ELSE OcrLoop(replies, 0, max_retries)

\* history: the generate_content calls and asyncio.sleep waits that
\* _extract_text_from_image makes for a page, in order
RECURSIVE OcrTrace(_, _, _, _)
OcrTrace(page, replies, attempt, max_retries) ==
    IF attempt >= max_retries THEN <<>>
    ELSE LET call == [page |-> page, attempt |-> attempt, what |-> "call",
                      reply |-> replies[attempt + 1]]
             sleep == [page |-> page, attempt |-> attempt, what |-> "sleep", reply |-> ""]
         IN IF replies[attempt + 1] = "error" /\ attempt < max_retries - 1
            THEN <<call, sleep>> \o OcrTrace(page, replies, attempt + 1, max_retries)
            ELSE <<call>>

\* a variant in which a page's calls are made ahead of the earlier pages'
events_page_first(earlier, page_events) == page_events \o earlier

\* the page loop awaits _extract_text_from_image before it takes the next
\* image: what a page does comes after all that the earlier pages did
events_in_loop_order(earlier, page_events) == earlier \o page_events

PageImages == {Img_Card, Img_Bmp, Img_Huge, Img_Broken}

\* what the OCR reads off a page (response.text.strip(), not empty)
Txt_Cookies == <<"C", "o", "o", "k", "i", "e", "s", "\n", "2", " ", "c", "u", "p", "s", " ", "f", "l", "o", "u", "r">>
Txt_Steps == <<"P", "a", "g", "e", " ", "2", "\n", "M", "i", "x", " ", "w", "e", "l", "l">>
Txt_PageOnly == <<"p", "a", "g", "e", " ", "3">>

Txt_Ingredients == <<"I", "n", "g", "r", "e", "d", "i", "e", "n", "t", "s", "\n", "2", " ", "c", "u", "p", "s", " ", "f", "l", "o", "u", "r">>

OcrTexts == {Txt_Cookies, Txt_Steps, Txt_PageOnly, Txt_Ingredients}

\* how many digits the text starts with
RECURSIVE DigitsAt(_)
DigitsAt(t) == IF t # <<>> /\ IsDigit(t[1]) THEN 1 + DigitsAt(Tail(t)) ELSE 0

\* re.sub(prefix + r'\d+', '', text, flags=re.IGNORECASE)
RECURSIVE RemoveNumbered(_, _)
RemoveNumbered(t, prefix) ==
    IF t = <<>> THEN <<>>
    ELSE IF StartsWithI(t, prefix) /\ DigitsAt(Drop(t, Len(prefix))) > 0
         THEN RemoveNumbered(Drop(t, Len(prefix) + DigitsAt(Drop(t, Len(prefix)))), prefix)
         ELSE <<t[1]>> \o RemoveNumbered(Tail(t), prefix)

\* re.sub(r'^page \d+$', '', text): the text is one line by then
RemoveWholeLinePage(t) ==
    IF StartsWithI(t, <<"p", "a", "g", "e", " ">>)
       /\ Len(t) > 5 /\ DigitsAt(Drop(t, 5)) = Len(t) - 5
    THEN <<>> ELSE t

\* ImageProcessingService._clean_extracted_text: the first substitution
\* leaves no newline, so the second never matches
_clean_extracted_text(text) ==
    IF text = <<>> THEN <<>>
    ELSE LET squashed == SquashSpaces(text)
             unclear == RemoveAll(squashed, << <<"[", "u", "n", "c", "l", "e", "a", "r", " ", "t", "e", "x", "t", "]">> >>)
             page == RemoveNumbered(unclear, <<"p", "a", "g", "e", " ">>)
             continued == RemoveAll(page, << <<"c", "o", "n", "t", "i", "n", "u", "e", "d", " ", "o", "n", " ", "n", "e", "x", "t", " ", "p", "a", "g", "e">> >>)
             see == RemoveNumbered(continued, <<"s", "e", "e", " ", "p", "a", "g", "e", " ">>)
         IN Strip(RemoveWholeLinePage(see))

cleaned_text_of == [text \in OcrTexts |-> _clean_extracted_text(text)]

\* str(page_num)
RECURSIVE Decimal(_)
Decimal(n) ==
    LET digit == <<"0", "1", "2", "3", "4", "5", "6", "7", "8", "9">>[(n % 10) + 1]
    IN IF n < 10 THEN <<digit>> ELSE Append(Decimal(n \div 10), digit)

Header == <<"M", "U", "L", "T", "I", "-", "P", "A", "G", "E", " ", "R", "E", "C", "I", "P", "E", " ", "(", "C", "o", "n", "s", "o", "l", "i", "d", "a", "t", "e", "d", " ", "f", "r", "o", "m", " ", "m", "u", "l", "t", "i", "p", "l", "e", " ", "i", "m", "a", "g", "e", "s", ")">>
Rule == [i \in 1..50 |-> "="]
PageMarker(page_num) ==
    <<"-", "-", "-", " ", "P", "A", "G", "E", " ">> \o Decimal(page_num) \o <<" ", "-", "-", "-">>

\* sorted(extracted_texts, key=lambda x: x['page'])
RECURSIVE SortedByPage(_)
SortedByPage(extracted_texts) ==
    IF extracted_texts = <<>> THEN <<>>
    ELSE LET k == CHOOSE k \in 1..Len(extracted_texts) :
                    /\ \A j \in 1..Len(extracted_texts) :
                            extracted_texts[k].page <= extracted_texts[j].page
                    /\ \A j \in 1..(k - 1) :
                            extracted_texts[j].page # extracted_texts[k].page
         IN <<extracted_texts[k]>>
            \o SortedByPage([i \in 1..(Len(extracted_texts) - 1) |->
                    IF i < k THEN extracted_texts[i] ELSE extracted_texts[i + 1]])

\* the lines that the loop over the pages adds to consolidated_parts
RECURSIVE PageParts(_)
PageParts(sorted_texts) ==
    IF sorted_texts = <<>> THEN <<>>
    ELSE LET cleaned_text == cleaned_text_of[sorted_texts[1].text]
         IN (IF cleaned_text # <<>>
             THEN << <<>>, PageMarker(sorted_texts[1].page), cleaned_text >>
             ELSE <<>>)
            \o PageParts(Tail(sorted_texts))

\* str.lower()
LowerText(t) == [i \in 1..Len(t) |-> Lower(t[i])]

\* t[i:].startswith(p), i counted from 1
MatchAt(t, i, p) == i + Len(p) - 1 <= Len(t) /\ SubSeq(t, i, i + Len(p) - 1) = p

\* p in t
Contains(t, p) == \E i \in 1..(Len(t) - Len(p) + 1) : MatchAt(t, i, p)

\* the English alternatives of the measurement patterns, in the order the
\* regular expression tries them (the model's texts hold no Hebrew)
measure_units == << <<"c", "u", "p">>, <<"c", "u", "p", "s">>, <<"t", "s", "p">>, <<"t", "b", "s", "p">>, <<"o", "z">>, <<"l", "b">>, <<"g", "r", "a", "m">>, <<"k", "g">>, <<"m", "l">>, <<"l", "i", "t", "e", "r">> >>
cooking_verbs == << <<"m", "i", "x">>, <<"s", "t", "i", "r">>, <<"a", "d", "d">>, <<"c", "o", "o", "k">>, <<"b", "a", "k", "e">>, <<"h", "e", "a", "t">>, <<"p", "o", "u", "r">>, <<"c", "h", "o", "p">>, <<"d", "i", "c", "e">>, <<"s", "l", "i", "c", "e">> >>

\* the first alternative of measure_units that matches at the start of t,
\* or 0
UnitAt(t) ==
    IF \E k \in 1..Len(measure_units) : MatchAt(t, 1, measure_units[k])
    THEN CHOOSE k \in 1..Len(measure_units) :
            /\ MatchAt(t, 1, measure_units[k])
            /\ \A j \in 1..(k - 1) : ~MatchAt(t, 1, measure_units[j])
    ELSE 0

\* [\d\s/.-] and [-*\u2022\d\s.]; the character \u2022 is written "bullet"
IsMeasureChar(c) == IsDigit(c) \/ IsSpace(c) \/ c \in {"/", ".", "-"}
IsListMarkerChar(c) == IsDigit(c) \/ IsSpace(c) \/ c \in {"-", "*", "bullet", "."}

\* how many characters of the class t starts with
RECURSIVE MeasureRun(_)
MeasureRun(t) == IF t # <<>> /\ IsMeasureChar(t[1]) THEN 1 + MeasureRun(Tail(t)) ELSE 0

\* re.sub(r'\d+[\d\s/.-]*(?:cup|cups|...)', '', t): at a digit, the longest
\* run of the class that a unit follows, with the first unit that matches
\* there
RECURSIVE RemoveMeasures(_)
RemoveMeasures(t) ==
    IF t = <<>> THEN <<>>
    ELSE IF IsDigit(t[1]) /\ \E k \in 1..MeasureRun(t) : UnitAt(Drop(t, k)) # 0
         THEN LET k == CHOOSE k \in 1..MeasureRun(t) :
                          /\ UnitAt(Drop(t, k)) # 0
                          /\ \A m \in (k + 1)..MeasureRun(t) : UnitAt(Drop(t, m)) = 0
              IN RemoveMeasures(Drop(t, k + Len(measure_units[UnitAt(Drop(t, k))])))
         ELSE <<t[1]>> \o RemoveMeasures(Tail(t))

\* re.sub(r'^[-*\u2022\d\s.]+', '', t)
RECURSIVE RemoveListMarkers(_)
RemoveListMarkers(t) ==
    IF t # <<>> /\ IsListMarkerChar(t[1]) THEN RemoveListMarkers(Tail(t)) ELSE t

\* ' '.join(t.split()[:n])
RECURSIVE TakeWords(_, _)
TakeWords(t, n) ==
    IF t = <<>> \/ n = 0 THEN <<>>
    ELSE IF t[1] = " "
         THEN (IF n = 1 THEN <<>> ELSE <<" ">> \o TakeWords(Tail(t), n - 1))
         ELSE <<t[1]>> \o TakeWords(Tail(t), n)
FirstWords(t, n) == TakeWords(JoinSplit(t), n)

\* re.search(r'^\d+\s*[-.]', t) and re.search(r'^[-*\u2022]\s*', t)
IsNumbered(t) ==
    /\ DigitsAt(t) > 0
    /\ LStrip(Drop(t, DigitsAt(t))) # <<>>
    /\ LStrip(Drop(t, DigitsAt(t)))[1] \in {"-", "."}
IsBulleted(t) == t # <<>> /\ t[1] \in {"-", "*", "bullet"}

\* re.search(r'\d+.*?(?:cup|cups|...)', t)
HasMeasure(t) ==
    \E i \in 1..Len(t) : IsDigit(t[i]) /\ \E j \in (i + 1)..Len(t) : UnitAt(Drop(t, j - 1)) # 0

\* \w, and re.search(r'\b(?:mix|stir|...)\b', t)
IsWordChar(c) == IsDigit(c) \/ c = "_" \/ \E i \in 1..26 : c \in {UpperCase[i], LowerCase[i]}
HasCookingVerb(t) ==
    \E k \in 1..Len(cooking_verbs), i \in 1..Len(t) :
        /\ MatchAt(t, i, cooking_verbs[k])
        /\ i = 1 \/ ~IsWordChar(t[i - 1])
        /\ i + Len(cooking_verbs[k]) > Len(t) \/ ~IsWordChar(t[i + Len(cooking_verbs[k])])

\* ImageProcessingService._extract_ingredient_key: None, or the key
_extract_ingredient_key(line) ==
    LET line_lower == Strip(LowerText(line))
        is_ingredient == HasMeasure(line_lower) \/ IsNumbered(line_lower) \/ IsBulleted(line_lower)
        words == FirstWords(RemoveListMarkers(RemoveMeasures(line_lower)), 3)
    IN IF Len(line_lower) < 3 THEN NoneText
       ELSE IF is_ingredient /\ words # <<>> THEN Str(words)
       ELSE NoneText

\* ImageProcessingService._extract_instruction_key: None, or the key
_extract_instruction_key(line) ==
    LET line_lower == Strip(LowerText(line))
        is_instruction == IsNumbered(line_lower) \/ IsBulleted(line_lower) \/ HasCookingVerb(line_lower)
        words == FirstWords(RemoveListMarkers(line_lower), 5)
    IN IF Len(line_lower) < 10 THEN NoneText
       ELSE IF is_instruction /\ words # <<>> THEN Str(words)
       ELSE NoneText

\* the loop of _post_process_consolidated_text from line i on, with the
\* locals current_section, seen_ingredients and seen_instructions
RECURSIVE PostProcessLoop(_, _, _, _, _)
PostProcessLoop(lines, i, current_section, seen_ingredients, seen_instructions) ==
    IF i > Len(lines) THEN <<>>
    ELSE LET line == Strip(lines[i])
             line_lower == LowerText(line)
             ingredient_key == _extract_ingredient_key(line)
             instruction_key == _extract_instruction_key(line)
         IN IF line = <<>>
            THEN << <<>> >> \o PostProcessLoop(lines, i + 1, current_section,
                                              seen_ingredients, seen_instructions)
            ELSE IF Contains(line_lower, <<"i", "n", "g", "r", "e", "d", "i", "e", "n", "t", "s">>)
            THEN <<line>> \o PostProcessLoop(lines, i + 1, "ingredients",
                                             seen_ingredients, seen_instructions)
            ELSE IF Contains(line_lower, <<"i", "n", "s", "t", "r", "u", "c", "t", "i", "o", "n", "s">>)
            THEN <<line>> \o PostProcessLoop(lines, i + 1, "instructions",
                                             seen_ingredients, seen_instructions)
            ELSE IF MatchAt(line, 1, <<"-", "-", "-">>)
            THEN <<line>> \o PostProcessLoop(lines, i + 1, "None",
                                             seen_ingredients, seen_instructions)
            ELSE IF current_section = "ingredients"
            THEN (IF Truthy(ingredient_key) /\ ingredient_key.text \in seen_ingredients
                  THEN <<>> ELSE <<line>>)
                 \o PostProcessLoop(lines, i + 1, current_section,
                        IF Truthy(ingredient_key)
                        THEN seen_ingredients \cup {ingredient_key.text}
                        ELSE seen_ingredients,
                        seen_instructions)
            ELSE IF current_section = "instructions"
            THEN (IF Truthy(instruction_key) /\ instruction_key.text \in seen_instructions
                  THEN <<>> ELSE <<line>>)
                 \o PostProcessLoop(lines, i + 1, current_section, seen_ingredients,
                        IF Truthy(instruction_key)
                        THEN seen_instructions \cup {instruction_key.text}
                        ELSE seen_instructions)
            ELSE <<line>> \o PostProcessLoop(lines, i + 1, current_section,
                                             seen_ingredients, seen_instructions)

\* a variant that strips the lines and drops none
_post_process_consolidated_text_keeps_all(lines) ==
    [i \in 1..Len(lines) |-> Strip(lines[i])]

\* ImageProcessingService._post_process_consolidated_text, on the lines of
\* the text (text.split('\n')); the result is the lines it joins
_post_process_consolidated_text(lines) == PostProcessLoop(lines, 1, "None", {}, {})

\* a variant that also wraps a single page
_consolidate_extracted_texts_always_wrapped(extracted_texts) ==
    IF extracted_texts = <<>> THEN <<>>
    ELSE _post_process_consolidated_text(
            <<Header, Rule>> \o PageParts(SortedByPage(extracted_texts)))

\* ImageProcessingService._consolidate_extracted_texts: the text returned,
\* as the sequence of its lines
_consolidate_extracted_texts(extracted_texts) ==
    IF extracted_texts = <<>> THEN <<>>
    ELSE IF Len(extracted_texts) = 1 THEN SplitLines(extracted_texts[1].text, <<>>)
    ELSE _post_process_consolidated_text(
            <<Header, Rule>> \o PageParts(SortedByPage(extracted_texts)))

multi_image_cap == 950
multi_image_boost == 11

\* a variant without the boost
adjusted_confidence_unboosted(original_confidence) ==
    Min(multi_image_cap, original_confidence)

\* min(0.95, original_confidence * 1.1)
adjusted_confidence(original_confidence) ==
    Min(multi_image_cap, (original_confidence * multi_image_boost) \div WeightScale)

\* ImageProcessingService.extract_recipe_from_image with a list
_extract_recipe_from_multiple_images(r, pages, max_retries) ==
    /\ IsNextCall(r, "images")
    /\ LET req == [reqs[r] EXCEPT !.kind = "images", !.pages = pages,
                                  !.max_retries = max_retries,
                                  !.after = {s \in Reqs : reqs[s].pc = "done"}]
       IN reqs' = [reqs EXCEPT ![r] =
            IF ~api_key THEN Returned(req, "raised", NoResponse)
            ELSE [req EXCEPT !.pc = "ocr"]]
    /\ UNCHANGED <<api_key, g_cache, i_cache>>
    /\ UNCHANGED notExtract

\* one turn of the loop over the pages
_extract_recipe_from_multiple_images_page(r, replies, ocr_text) ==
    /\ reqs[r].pc = "ocr" /\ reqs[r].page < Len(reqs[r].pages)
    /\ LET req == reqs[r]
           i == req.page + 1
           text == _extract_text_from_image(req.pages[i], req.max_retries, replies)
       IN reqs' = [reqs EXCEPT ![r] =
            [req EXCEPT !.page = i,
                        !.page_results =
                            Append(@, PageResult(req.pages[i], req.max_retries, replies)),
                        !.ocr_events =
                            IF _process_image(req.pages[i]).raised THEN @
                            ELSE events_in_loop_order(@,
                                    OcrTrace(i, replies, 0, req.max_retries)),
                        !.page_texts = IF text = "text" THEN Append(@, ocr_text) ELSE @,
                        !.extracted_texts = IF text = "text" THEN Append(@, i) ELSE @]]
    /\ UNCHANGED <<api_key, g_cache, i_cache>>
    /\ UNCHANGED notExtract

\* after the loop: the fallback, or process_text on the consolidated text
_extract_recipe_from_multiple_images_result(r, parsed) ==
    /\ reqs[r].pc = "ocr" /\ reqs[r].page = Len(reqs[r].pages)
    /\ LET req == reqs[r]
           extracted_texts ==
               [k \in 1..Len(req.extracted_texts) |->
                   [page |-> req.extracted_texts[k], text |-> req.page_texts[k]]]
           consolidated_text == _consolidate_extracted_texts(extracted_texts)
           result == process_text(uuid4(r), parsed)
       IN reqs' = [reqs EXCEPT ![r] =
            IF req.extracted_texts = <<>>
            THEN Returned(req, "fallback",
                    Response(_convert_to_recipe_model_image(uuid4(r),
                                 _create_image_fallback_result).recipe,
                             image_fallback_confidence))
            ELSE Returned([req EXCEPT !.original_confidence = result.confidence_score,
                                      !.consolidated_text = consolidated_text],
                          "success",
                          Response(result.recipe,
                                   adjusted_confidence(result.confidence_score)))]
    /\ UNCHANGED <<api_key, g_cache, i_cache>>
    /\ UNCHANGED notExtract

RECURSIVE PageSeqs(_)
PageSeqs(n) ==
    IF n = 0 THEN {<<>>}
    ELSE PageSeqs(n - 1)
         \cup {Append(q, image) : q \in {q \in PageSeqs(n - 1) : Len(q) = n - 1},
                                  image \in PageImages}

NextImages ==
    \E r \in Reqs :
        \/ \E pages \in PageSeqs(MaxImages) \ {<<>>}, max_retries \in 0..MaxAttempts :
               _extract_recipe_from_multiple_images(r, pages, max_retries)
        \/ \E replies \in [1..reqs[r].max_retries -> OcrReplies], ocr_text \in OcrTexts :
               _extract_recipe_from_multiple_images_page(r, replies, ocr_text)
        \/ \E parsed \in Parses : _extract_recipe_from_multiple_images_result(r, parsed)

NextExtraction == NextGemini \/ NextImage \/ NextImages \/ NextRouter

(***************************************************************************)
(* The recipe models on their own: construction and model_dump().          *)
(***************************************************************************)
\* the keyword arguments a caller can pass: a name or none, ingredients,
\* instructions and stages absent, empty or filled, times absent, zero or
\* positive, and a totalTime of the caller's own
RecipeInputs ==
    {[RecipeDict(name, ingredients, instructions, stages, prepTime, cookTime,
                 NilInt, NilSeq, <<>>) EXCEPT !.totalTime = supplied] :
        name \in {NameStr(Name_Full), NameMissing, NameNull},
        ingredients \in {<<>>, <<Flour>>},
        instructions \in {NilSeq, Some(<<>>), Some(<<"mix">>)},
        stages \in {NilSeq, Some(<<>>), Some(<<Stage("dough", <<"mix">>)>>)},
        prepTime \in {NilInt, Some(0), Some(15)},
        cookTime \in {NilInt, Some(0), Some(30)},
        supplied \in {NilInt, Some(50)}}

NoCall == [op |-> "none", data |-> Dict_Simple, raised |-> FALSE,
           dump |-> Dict_Simple, recipe |-> NoRecipe]

RecipeInit == m_call = NoCall

\* RecipeBase(**data), then model_dump() of what was built
RecipeBase(data) ==
    /\ m_call = NoCall
    /\ m_call' = [op |-> "RecipeBase", data |-> data,
                  raised |-> ~RecipeBaseValid(data),
                  dump |-> IF RecipeBaseValid(data) THEN model_dump(data)
                           ELSE Dict_Simple,
                  recipe |-> NoRecipe]
    /\ UNCHANGED notRecipe

\* GeminiService._convert_to_recipe_model called on a dict
GeminiService_convert_to_recipe_model(id, data) ==
    /\ m_call = NoCall
    /\ m_call' = [op |-> "gemini_convert", data |-> data,
                  raised |-> _convert_to_recipe_model(id, data).raised,
                  dump |-> Dict_Simple,
                  recipe |-> _convert_to_recipe_model(id, data).recipe]
    /\ UNCHANGED notRecipe

\* ImageProcessingService._convert_to_recipe_model called on a dict
ImageProcessingService_convert_to_recipe_model(id, data) ==
    /\ m_call = NoCall
    /\ m_call' = [op |-> "image_convert", data |-> data,
                  raised |-> _convert_to_recipe_model_image(id, data).raised,
                  dump |-> Dict_Simple,
                  recipe |-> _convert_to_recipe_model_image(id, data).recipe]
    /\ UNCHANGED notRecipe

NextRecipe ==
    \E data \in RecipeInputs :
        \/ RecipeBase(data)
        \/ GeminiService_convert_to_recipe_model(uuid4(1), data)
        \/ ImageProcessingService_convert_to_recipe_model(uuid4(1), data)

(***************************************************************************)
(* AdminRateLimiter (app/security/admin_security.py)                       *)
(* Time is counted in whole seconds.  The limiter is built with a small    *)
(* window so that windows fill, expire and get cleaned within the clock's  *)
(* range.                                                                  *)
(***************************************************************************)
MaxTime == 6
MaxLog == 5
max_requests == 2
window_seconds == 3
cleanup_interval == 4

ClientIps == {"10.0.0.1", "10.0.0.2"}

\* a variant of the window filter that forgets a request one second early
recent_requests_short_window(request_times, now) ==
    SelectSeq(request_times, LAMBDA req_time : now - req_time < window_seconds - 1)

\* [req_time for req_time in request_times if now - req_time < self.window_seconds]
recent_requests(request_times, now) ==
    SelectSeq(request_times, LAMBDA req_time : now - req_time < window_seconds)

\* self.requests is a defaultdict(list): reading a missing ip yields []
requests_get(requests, ip) ==
    IF ip \in DOMAIN requests THEN requests[ip] ELSE <<>>

\* the dict after `self.requests[ip] = request_times`
requests_set(requests, ip, request_times) ==
    [i \in DOMAIN requests \cup {ip} |->
        IF i = ip THEN request_times ELSE requests[i]]

\* _cleanup_old_entries(now): the limiter's [requests, last_cleanup] after it
_cleanup_old_entries(requests, last_cleanup, now) ==
    IF now - last_cleanup < cleanup_interval
    THEN [requests |-> requests, last_cleanup |-> last_cleanup]
    ELSE LET ips_to_remove ==
                 {ip \in DOMAIN requests : recent_requests(requests[ip], now) = <<>>}
         IN [requests |-> [ip \in DOMAIN requests \ ips_to_remove |->
                              recent_requests(requests[ip], now)],
             last_cleanup |-> now]

\* is_allowed(client_ip) at time now: what it returns and what it leaves
is_allowed_at(requests, last_cleanup, client_ip, now) ==
    LET cleaned == _cleanup_old_entries(requests, last_cleanup, now)
        in_window == recent_requests(requests_get(cleaned.requests, client_ip), now)
        allowed == ~(Len(in_window) >= max_requests)
    IN [allowed |-> allowed,
        requests |-> requests_set(cleaned.requests, client_ip,
                        IF allowed THEN Append(in_window, now) ELSE in_window),
        last_cleanup |-> cleaned.last_cleanup]

\* get_remaining_requests(client_ip): filters the ip's list once more
get_remaining_requests(requests, client_ip, now) ==
    requests_set(requests, client_ip,
        recent_requests(requests_get(requests, client_ip), now))

LimiterInit ==
    /\ l_now = 0
    /\ l_requests = <<>>
    /\ l_last_cleanup = 0
    /\ l_log = <<>>

\* the clock moves on between two requests
Tick ==
    /\ l_now < MaxTime
    /\ l_now' = l_now + 1
    /\ UNCHANGED <<l_requests, l_last_cleanup, l_log>>
    /\ UNCHANGED notLimiter

\* check_admin_rate_limit(request) for a request from client_ip
check_admin_rate_limit(client_ip) ==
    /\ Len(l_log) < MaxLog
    /\ LET res == is_allowed_at(l_requests, l_last_cleanup, client_ip, l_now)
       IN /\ l_requests' = IF res.allowed THEN res.requests
                           ELSE get_remaining_requests(res.requests, client_ip, l_now)
          /\ l_last_cleanup' = res.last_cleanup
          /\ l_log' = Append(l_log, [ip |-> client_ip, time |-> l_now,
                                     allowed |-> res.allowed])
    /\ UNCHANGED l_now
    /\ UNCHANGED notLimiter

NextLimiter ==
    \/ Tick
    \/ \E client_ip \in ClientIps : check_admin_rate_limit(client_ip)


Init == FetchInit /\ ContentInit /\ ExtractInit /\ RecipeInit /\ LimiterInit

SpecFetch == Init /\ [][NextFetch]_vars

SpecContent == Init /\ [][NextContent]_vars

SpecGemini == Init /\ [][NextGemini]_vars

SpecImage == Init /\ [][NextImage]_vars

SpecExtraction == Init /\ [][NextExtraction]_vars

SpecRecipe == Init /\ [][NextRecipe]_vars

SpecLimiter == Init /\ [][NextLimiter]_vars

(***************************************************************************)
(* Claims about fetch_content                                              *)
(***************************************************************************)
BlockedHost(h) ==
    h.kind = "ipv4" /\ (is_loopback(h.ip) \/ is_private(h.ip) \/ is_reserved(h.ip))

\* C1: for every url whose host is a loopback, private or reserved IP literal,
\* and for every url whose explicit port is on the denylist, fetch_content
\* raises before any HTTP request is issued, whatever max_retries is.
C1_BlockedUrlRaisesBeforeAnyRequest ==
    (f_pc # "idle" /\ (BlockedHost(f_url.host) \/ f_url.port \in dangerous_ports))
        => /\ f_pc = "raised"
           /\ f_hist = <<>>
           /\ f_errors = <<[type |-> "ValueError", last |-> None]>>

\* C9: a response whose status is neither 200 nor 429 fails the fetch on its
\* first occurrence: it is the last request issued, and no backoff wait follows it.
C9_OtherStatusFailsAtOnce ==
    \A i \in 1..Len(f_hist) :
        f_hist[i] \in OtherStatuses
            => /\ i = Len(f_hist)
               /\ \A j \in 1..Len(f_sleeps) : f_sleeps[j].after < i - 1

\* C10: when fetch_content gives up after max_retries attempts that all failed
\* retryably (timeout, connection error, HTTP 429), it raises exactly one error
\* and that error embeds the cause of the last failed attempt.
C10_ExhaustedErrorEmbedsLastCause ==
    (/\ f_pc = "raised"
     /\ f_max_retries >= 1
     /\ Len(f_hist) = f_max_retries
     /\ \A i \in 1..Len(f_hist) : f_hist[i] \in RetryableResponses)
        => /\ Len(f_errors) = 1
           /\ f_errors[1].type = "Exception"
           /\ f_errors[1].last = f_hist[Len(f_hist)]

(***************************************************************************)
(* Claims about extract_recipe_content                                     *)
(***************************************************************************)
\* the strategies in their fixed order, each with what it extracts from the page
StrategyOrder == <<"json-ld", "microdata", "css-selectors", "full-text">>

StrategyOutput(m, page) ==
    CASE m = "json-ld"       -> _extract_json_ld(page)
      [] m = "microdata"     -> _extract_microdata(page)
      [] m = "css-selectors" -> _extract_by_selectors(page)
      [] m = "full-text"     -> _extract_full_text(page)

\* a strategy succeeds when it yields a non-empty text; full-text always does
Succeeds(m, page) == m = "full-text" \/ Truthy(StrategyOutput(m, page))

ClaimedWeight(m) ==
    CASE m = "json-ld"       -> 950
      [] m = "microdata"     -> 850
      [] m = "css-selectors" -> 750
      [] m = "full-text"     -> 500

\* C5: extract_recipe_content returns the result of the first strategy that
\* succeeds in the order json-ld, microdata, css-selectors, full-text (never a
\* later strategy's result when an earlier one succeeds), and the confidence
\* is the fixed weight of the reported method (0.95, 0.85, 0.75, 0.5).
C5_FirstSuccessfulStrategyWins ==
    c_pc = "done" =>
        \E k \in 1..4 :
            /\ c_result.extraction_method = StrategyOrder[k]
            /\ Succeeds(StrategyOrder[k], c_page)
            /\ \A e \in 1..(k - 1) : ~Succeeds(StrategyOrder[e], c_page)
            /\ c_result.content = StrategyOutput(StrategyOrder[k], c_page).text
            /\ c_result.confidence = ClaimedWeight(StrategyOrder[k])

\* a page on which json-ld and microdata both succeed, and json-ld was reported
C5_Witness ==
    /\ c_pc = "done"
    /\ Truthy(_extract_json_ld(c_page))
    /\ Truthy(_extract_microdata(c_page))
    /\ Truthy(_extract_by_selectors(c_page))
    /\ c_result.extraction_method = "json-ld"
    /\ c_result.content = <<"Recipe:", "J2">>

(***************************************************************************)
(* Claims about the extraction entry points                                *)
(***************************************************************************)
Returns(r) == reqs[r].pc = "done"
Confidence(r) == reqs[r].response.confidence_score
RecipeOf(r) == reqs[r].response.recipe

\* C2: whenever the AI service is available, GeminiService.extract_recipe
\* returns an extraction result for every text, every max_retries and every
\* pattern of per-attempt failures: no call ends in an exception or without
\* a result.
C2_ExtractRecipeAlwaysReturnsAResult ==
    api_key =>
        \A r \in Reqs :
            (reqs[r].kind = "text" /\ Returns(r))
                => /\ reqs[r].outcome \in {"hit", "success", "fallback"}
                   /\ reqs[r].response # NoResponse

\* every attempt of the call was made and failed
EveryAttemptFailed(r) ==
    /\ Returns(r)
    /\ \/ /\ reqs[r].kind \in {"text", "image"}
          /\ reqs[r].max_retries >= 1
          /\ reqs[r].calls = reqs[r].max_retries
          /\ reqs[r].outcome # "success"
       \/ /\ reqs[r].kind = "images"
          /\ reqs[r].page = Len(reqs[r].pages)
          /\ reqs[r].extracted_texts = <<>>

OneInstruction(recipe) ==
    /\ recipe.instructions.some
    /\ Len(recipe.instructions.v) = 1
    /\ ~recipe.stages.some

HasTag(recipe, tag) == \E i \in 1..Len(recipe.tags) : recipe.tags[i] = tag

\* C3 (as stated): when every attempt of an extraction fails, the returned
\* recipe has exactly one placeholder ingredient, exactly one placeholder
\* instruction and the tag "extraction-failed", with confidence 0.2 on the
\* text path and 0.1 on the image path.
C3_FallbackIsOnePlaceholderEach ==
    \A r \in Reqs :
        EveryAttemptFailed(r)
            => /\ Len(RecipeOf(r).ingredients) = 1
               /\ OneInstruction(RecipeOf(r))
               /\ HasTag(RecipeOf(r), "extraction-failed")
               /\ Confidence(r) = IF reqs[r].kind = "text" THEN 200 ELSE 100

\* C3 (amended): when every attempt fails, the text path returns one
\* placeholder ingredient, one placeholder instruction and the single tag
\* "extraction-failed" with confidence 0.2; the image path (one image, or a
\* list none of whose pages gives text) returns no ingredient, one placeholder
\* instruction and the single tag "image-extraction-failed" with confidence 0.1.
C3_FallbackShapePerPath ==
    \A r \in Reqs :
        EveryAttemptFailed(r)
            => /\ reqs[r].outcome = "fallback"
               /\ OneInstruction(RecipeOf(r))
               /\ reqs[r].kind = "text"
                    => /\ RecipeOf(r).ingredients =
                            <<Ingredient("Ingredient extraction failed", "N/A", "N/A")>>
                       /\ RecipeOf(r).tags = <<"extraction-failed">>
                       /\ Confidence(r) = 200
               /\ reqs[r].kind \in {"image", "images"}
                    => /\ RecipeOf(r).ingredients = <<>>
                       /\ RecipeOf(r).name = Name_ImageFailed
                       /\ RecipeOf(r).tags = <<"image-extraction-failed">>
                       /\ Confidence(r) = 100

\* a single-image call whose two attempts both failed
C3_Witness ==
    \E r \in Reqs :
        /\ EveryAttemptFailed(r)
        /\ reqs[r].kind = "image"
        /\ reqs[r].calls = 2
        /\ Len(reqs[r].sleeps) = 1

\* call b repeats, with the cache on, the text of call a, which had
\* succeeded with the cache on before b was made
RepeatsSucceeded(a, b) ==
    /\ a # b
    /\ reqs[a].kind = "text" /\ reqs[b].kind = "text"
    /\ reqs[a].outcome = "success" /\ reqs[a].use_cache
    /\ a \in reqs[b].after
    /\ reqs[b].use_cache
    /\ reqs[b].text = reqs[a].text

ServedFromCache(a, b) ==
    /\ Returns(b)
    /\ reqs[b].outcome = "hit"
    /\ reqs[b].calls = 0
    /\ RecipeOf(b).name = RecipeOf(a).name
    /\ RecipeOf(b).ingredients = RecipeOf(a).ingredients
    /\ cache_has(g_cache, _generate_cache_key(reqs[b].text))
    /\ Confidence(b) = g_cache[_generate_cache_key(reqs[b].text)].confidence_score.v
    /\ Confidence(b) = Confidence(a)

\* C4 (as stated): with use_cache=true, once one extract_recipe call on a
\* text has succeeded, a second call with the identical text makes no model
\* invocation, exactly one invocation is made in total across the two calls,
\* and the second call returns the same recipe name and ingredients together
\* with the cached confidence.
C4_SecondCallIsTheOnlyInvocationSaved ==
    \A a, b \in Reqs :
        RepeatsSucceeded(a, b)
            => /\ ServedFromCache(a, b)
               /\ reqs[a].calls + reqs[b].calls = 1

\* C4 (amended): with use_cache=true, once one extract_recipe call on a text
\* has succeeded, a second call with the identical text makes no model
\* invocation and returns the same recipe name and ingredients together with
\* the cached confidence; the invocations across the two calls are those of
\* the first call alone, one for each attempt it needed.
C4_SecondCallServedFromCache ==
    \A a, b \in Reqs :
        RepeatsSucceeded(a, b)
            => /\ ServedFromCache(a, b)
               /\ reqs[a].calls + reqs[b].calls = reqs[a].attempt + 1

\* a first call that needed two attempts, then a repeat served from the cache
C4_Witness ==
    \E a, b \in Reqs :
        /\ RepeatsSucceeded(a, b)
        /\ Returns(b)
        /\ reqs[a].calls = 2
        /\ reqs[b].calls = 0

Answered(r) == Returns(r) /\ reqs[r].outcome \in {"hit", "success", "fallback"}

C8_MultiImageConfidenceIsBoostedAndCapped ==
    \A r \in Reqs :
        (reqs[r].kind = "images" /\ Returns(r) /\ reqs[r].outcome # "raised"
         /\ reqs[r].extracted_texts # <<>>)
            => LET c == _calculate_confidence_text(RecipeOf(r))
               IN /\ reqs[r].outcome = "success"
                  /\ 10 * Confidence(r) = Min(10 * 950, 11 * c)

\* two pages of which only the second gave text, scored below the cap
C8_Witness ==
    \E r \in Reqs :
        /\ reqs[r].kind = "images" /\ Returns(r)
        /\ reqs[r].extracted_texts = <<2>>
        /\ _calculate_confidence_text(RecipeOf(r)) = 740
        /\ Confidence(r) = 814

(***************************************************************************)
(* Claims about invalid images and failing pages                           *)
(***************************************************************************)
PageFailed(r, i) == reqs[r].page_results[i] \in {"invalid", "ocr-failed"}

Contributes(r, i) ==
    \E k \in 1..Len(reqs[r].extracted_texts) : reqs[r].extracted_texts[k] = i

\* C11: in multi-image mode a failure on an individual page (invalid image,
\* or OCR still failing after its retries) is never propagated and that page
\* contributes no text; if every page fails, the call returns a fallback
\* result with confidence exactly 0.1 instead of raising.
C11_PageFailuresAreSwallowed ==
    \A r \in Reqs :
        (api_key /\ reqs[r].kind = "images")
            => /\ reqs[r].outcome # "raised"
               /\ \A i \in 1..reqs[r].page : PageFailed(r, i) => ~Contributes(r, i)
               /\ (Returns(r) /\ \A i \in 1..Len(reqs[r].pages) : PageFailed(r, i))
                    => /\ reqs[r].outcome = "fallback"
                       /\ Confidence(r) = 100

\* two pages, the first invalid and the second failing every OCR attempt,
\* answered by the fallback
C11_Witness ==
    \E r \in Reqs :
        /\ api_key /\ reqs[r].kind = "images" /\ Returns(r)
        /\ reqs[r].page_results = <<"invalid", "ocr-failed">>
        /\ reqs[r].max_retries = 2
        /\ reqs[r].outcome = "fallback"

\* malformed, oversized (> 4 MB) or of an unsupported format
InvalidImage(image) ==
    \/ image.format = "none"
    \/ image.bytes > 4 * 1024 * 1024
    \/ image.format \notin {"JPEG", "JPG", "PNG", "WEBP", "GIF"}

\* C12: a malformed, oversized (> 4 MB) or unsupported-format image raises an
\* invalid-image error to the caller in single-image mode, before any cache
\* access or AI invocation, whereas in multi-image mode the same image raises
\* nothing and only removes that page's contribution.
C12_InvalidImageRaisesSingleSwallowedMulti ==
    \A r \in Reqs :
        api_key =>
            /\ (reqs[r].kind = "image" /\ InvalidImage(reqs[r].image))
                    => /\ Returns(r) /\ reqs[r].outcome = "raised"
                       /\ reqs[r].calls = 0
                       /\ reqs[r].processed_image = NoProcessed
            /\ (reqs[r].kind = "image" /\ reqs[r].outcome = "raised")
                    => InvalidImage(reqs[r].image)
            /\ reqs[r].kind = "images"
                    => /\ reqs[r].outcome # "raised"
                       /\ \A i \in 1..reqs[r].page :
                            InvalidImage(reqs[r].pages[i])
                                => /\ ~Contributes(r, i)
                                   /\ reqs[r].page_results[i] = "invalid"

\* an oversized first page dropped from a two-page call whose second page
\* gave the text of the answer
C12_Witness ==
    \E r \in Reqs :
        /\ api_key /\ reqs[r].kind = "images" /\ Returns(r)
        /\ reqs[r].pages = <<Img_Huge, Img_Card>>
        /\ reqs[r].extracted_texts = <<2>>
        /\ reqs[r].outcome = "success"

(***************************************************************************)
(* Claims about the recipe models                                          *)
(***************************************************************************)
Constructed == m_call.op = "RecipeBase"

IsSet(field) == field.some

\* C13: constructing a recipe with both stages and instructions set, or with
\* neither set, fails validation; construction succeeds only when exactly
\* one of the two is set.
C13_StagesXorInstructions ==
    Constructed =>
        LET both == IsSet(m_call.data.stages) /\ IsSet(m_call.data.instructions)
            neither == ~IsSet(m_call.data.stages) /\ ~IsSet(m_call.data.instructions)
        IN /\ (both \/ neither) => m_call.raised
           /\ ~m_call.raised => (IsSet(m_call.data.stages) # IsSet(m_call.data.instructions))

\* a named recipe given a stage and an instruction, refused
C13_Witness ==
    /\ Constructed
    /\ m_call.data.name = NameStr(Name_Full)
    /\ m_call.data.stages = Some(<<Stage("dough", <<"mix">>)>>)
    /\ m_call.data.instructions = Some(<<"mix">>)
    /\ m_call.raised

Minutes(t) == IF t.some THEN t.v ELSE 0

\* C14: totalTime is None when prepTime and cookTime are both absent, and
\* otherwise equals prepTime + cookTime with an absent value counted as 0; a
\* totalTime supplied by the caller at construction never influences the
\* value.
C14_TotalTimeIsComputed ==
    (Constructed /\ ~m_call.raised) =>
        LET prepTime == m_call.data.prepTime
            cookTime == m_call.data.cookTime
        IN IF ~prepTime.some /\ ~cookTime.some
           THEN ~m_call.dump.totalTime.some
           ELSE /\ m_call.dump.totalTime.some
                /\ m_call.dump.totalTime.v = Minutes(prepTime) + Minutes(cookTime)

\* the case of test_total_time_not_settable: 15 + 30 with 50 passed in
C14_Witness ==
    /\ Constructed /\ ~m_call.raised
    /\ m_call.data.prepTime = Some(15)
    /\ m_call.data.cookTime = Some(30)
    /\ m_call.data.totalTime = Some(50)
    /\ m_call.dump.totalTime = Some(45)

(***************************************************************************)
(* Claims about the fallback name                                          *)
(***************************************************************************)
\* the name the rule gives when it reads the lines of the text as passed:
\* the first of the first three lines that is 4 to 99 characters long with
\* no digit among its first 10 characters, else the placeholder
NameByLines == [text \in Texts |-> _create_fallback_result(text).name.v]

\* C15: when the AI invocation fails on all attempts for the input
\* "Recipe Title\nSome content" passed to extract_recipe, the fallback
\* recipe's name is "Recipe Title"; in general the fallback name is the first
\* of the input's first three lines that is 4 to 99 characters long with no
\* digit among its first 10 characters, and "Recipe Extraction Failed" if
\* there is none.
C15_FallbackNameIsFirstUsableLine ==
    \A r \in Reqs :
        (reqs[r].kind = "text" /\ Returns(r) /\ reqs[r].outcome = "fallback")
            => /\ RecipeOf(r).name = NameByLines[reqs[r].text]
               /\ reqs[r].text = Text_RecipeTitle
                    => RecipeOf(r).name = <<"R", "e", "c", "i", "p", "e", " ", "T", "i", "t", "l", "e">>

(***************************************************************************)
(* Claims about recipe assembly                                            *)
(***************************************************************************)
Assembled == m_call.op \in {"gemini_convert", "image_convert"}

ErrorName == IF m_call.op = "gemini_convert" THEN Name_ProcessingError ELSE Name_ImageError

IsMinimal(recipe) ==
    /\ recipe.ingredients = <<>>
    /\ recipe.instructions.some /\ Len(recipe.instructions.v) = 1
    /\ ~recipe.stages.some

\* C16: recipe assembly (_convert_to_recipe_model) never raises to its
\* caller: for every input dict, including one whose name is missing or
\* invalid, it returns a valid Recipe, either the full mapping, or a minimal
\* recipe carrying the original name if recoverable and otherwise a fixed
\* error name, with empty ingredients and a single diagnostic instruction.
C16_AssemblyNeverRaises ==
    Assembled =>
        /\ ~m_call.raised
        /\ \/ m_call.recipe = RecipeObject(m_call.recipe.id, m_call.data)
           \/ /\ IsMinimal(m_call.recipe)
              /\ m_call.recipe.name =
                    IF m_call.data.name.k = "str" THEN m_call.data.name.v ELSE ErrorName

(***************************************************************************)
(* Claims about the image entry point                                      *)
(***************************************************************************)
\* how many images the request carried: one string, or a list
ImageCount(r) == IF reqs[r].kind = "image" THEN 1 ELSE Len(reqs[r].pages)

\* the call went through the OCR loop and the consolidation
TookOcrPath(r) == reqs[r].kind = "images"

\* C17: an image request carrying exactly one image is handled by calling
\* the structured extractor directly on that image (no OCR-consolidation pass
\* and no multi-image confidence boost); the OCR-consolidation path is taken
\* only when more than one image is supplied.
C17_OneImageIsExtractedDirectly ==
    \A r \in Reqs :
        (api_key /\ reqs[r].kind \in {"image", "images"})
            => /\ ImageCount(r) = 1 => ~TookOcrPath(r)
               /\ TookOcrPath(r) => ImageCount(r) > 1

(***************************************************************************)
(* Claims about the consolidated text                                      *)
(***************************************************************************)
Consolidated(r) ==
    reqs[r].kind = "images" /\ Returns(r) /\ reqs[r].outcome = "success"

\* the line of the document that is the marker of page n, 0 if there is none
MarkerAt(doc, n) ==
    IF \E j \in 1..Len(doc) : doc[j] = PageMarker(n)
    THEN CHOOSE j \in 1..Len(doc) : doc[j] = PageMarker(n)
    ELSE 0

StartsWithHeader(doc) ==
    /\ doc # <<>>
    /\ Len(doc[1]) >= 17
    /\ SubSeq(doc[1], 1, 17) = <<"M", "U", "L", "T", "I", "-", "P", "A", "G", "E", " ", "R", "E", "C", "I", "P", "E">>

\* C18 (as stated): for multi-image input, the consolidated text is wrapped
\* in the "MULTI-PAGE RECIPE" header and contains a "PAGE n" marker before
\* each contributing page's text, with n the page's original 1-based index
\* and the pages in ascending original index.
C18_EveryContributingPageIsMarked ==
    \A r \in Reqs :
        Consolidated(r) =>
            LET doc == reqs[r].consolidated_text
                pages == reqs[r].extracted_texts
            IN /\ StartsWithHeader(doc)
               /\ \A k \in 1..Len(pages) : MarkerAt(doc, pages[k]) > 0
               /\ \A k, l \in 1..Len(pages) :
                    pages[k] < pages[l] => MarkerAt(doc, pages[k]) < MarkerAt(doc, pages[l])

\* C18 (amended): for multi-image input in which at least two pages yield
\* text, the consolidated text starts with the "MULTI-PAGE RECIPE" header and
\* holds, for each of those pages whose cleaned text is not empty, a "PAGE n"
\* marker followed by that cleaned text, with n the page's original 1-based
\* index and the pages in ascending original index; a page whose cleaned text
\* is empty gets no marker; when exactly one page yields text, the
\* consolidated text is that page's text as read, without header or marker.
C18_MarkedWhenSeveralPagesGiveText ==
    \A r \in Reqs :
        Consolidated(r) =>
            LET doc == reqs[r].consolidated_text
                pages == reqs[r].extracted_texts
                texts == reqs[r].page_texts
            IN IF Len(pages) = 1
               THEN /\ doc = SplitLines(texts[1], <<>>)
                    /\ ~StartsWithHeader(doc)
                    /\ MarkerAt(doc, pages[1]) = 0
               ELSE /\ StartsWithHeader(doc)
                    /\ \A k \in 1..Len(pages) :
                        IF _clean_extracted_text(texts[k]) = <<>>
                        THEN MarkerAt(doc, pages[k]) = 0
                        ELSE /\ MarkerAt(doc, pages[k]) > 0
                             /\ MarkerAt(doc, pages[k]) < Len(doc)
                             /\ doc[MarkerAt(doc, pages[k]) + 1] = _clean_extracted_text(texts[k])
                    /\ \A k, l \in 1..Len(pages) :
                        (pages[k] < pages[l] /\ MarkerAt(doc, pages[k]) > 0
                         /\ MarkerAt(doc, pages[l]) > 0)
                            => MarkerAt(doc, pages[k]) < MarkerAt(doc, pages[l])

\* two pages that both gave text: header, rule, PAGE 1 and PAGE 2
C18_Witness ==
    \E r \in Reqs :
        /\ Consolidated(r)
        /\ reqs[r].extracted_texts = <<1, 2>>
        /\ reqs[r].page_texts = <<Txt_Cookies, Txt_Steps>>
        /\ Len(reqs[r].consolidated_text) = 8
        /\ reqs[r].consolidated_text[4] = PageMarker(1)
        /\ reqs[r].consolidated_text[7] = PageMarker(2)
        /\ reqs[r].consolidated_text[8] = <<"M", "i", "x", " ", "w", "e", "l", "l">>

(***************************************************************************)
(* Claims about the cache                                                  *)
(***************************************************************************)
\* this step is the insertion self.cache[cache_key] = result of some call
InsertsUnder(key) ==
    \E r \in Reqs :
        /\ reqs[r].kind = "text" /\ reqs[r].pc = "awaiting" /\ reqs[r].use_cache
        /\ reqs'[r].outcome = "success"
        /\ key = _generate_cache_key(reqs[r].text)

\* C19: once a value has been inserted into the extraction cache under a
\* key, that stored value is never modified by any later operation (cache
\* hits, recipe assembly, confidence adjustment by callers); an entry changes
\* only by being replaced wholesale by a later insertion for the same key.
C19_CachedValueChangesOnlyByInsertion ==
    [][\A key \in DOMAIN g_cache :
            /\ key \in DOMAIN g_cache'
            /\ g_cache'[key] # g_cache[key] => InsertsUnder(key)]_vars

\* a call served from the cache, after which the entry is still the dict the
\* first call stored
C19_Witness ==
    \E a, b \in Reqs :
        /\ RepeatsSucceeded(a, b) /\ Returns(b) /\ reqs[b].outcome = "hit"
        /\ DOMAIN g_cache = {_generate_cache_key(reqs[a].text)}
        /\ g_cache[_generate_cache_key(reqs[a].text)].name = NameStr(RecipeOf(a).name)
        /\ g_cache[_generate_cache_key(reqs[a].text)].confidence_score = Some(Confidence(a))
        /\ DOMAIN g_cache[_generate_cache_key(reqs[a].text)] = DOMAIN Dict_Simple

(***************************************************************************)
(* Claims about the retry loop of GeminiService.extract_recipe             *)
(***************************************************************************)
\* the call went into the retry loop: it issued a generate_content call
InRetryLoop(r) == reqs[r].kind = "text" /\ reqs[r].calls > 0

\* C20: extract_recipe invokes the model at most max_retries times (3 when
\* the option is not given), once per attempt and never again after the
\* first success; after failed attempt k (counted from 0) of any kind, a
\* schema-validation failure included, it waits retry_delay * 2^k and then
\* makes the next attempt: it gives up only when attempt max_retries - 1
\* has failed.
C20_OneCallPerAttemptWithBackoff ==
    \A r \in Reqs : InRetryLoop(r) =>
        LET req == reqs[r]
        IN /\ req.calls <= req.max_retries
           /\ ~req.options_max_retries.some => req.max_retries = 3
           /\ req.calls = req.attempt + 1
           /\ \A k \in 0..(Len(req.sleeps) - 1) :
                  req.sleeps[k + 1] = gemini_retry_delay * Pow2(k)
           /\ req.pc = "awaiting" =>
                  Len(req.sleeps) = req.attempt
           /\ req.pc = "sleeping" =>
                  /\ Len(req.sleeps) = req.attempt + 1
                  /\ req.attempt < req.max_retries - 1
                  /\ req.last_error # "None"
           /\ req.pc = "done" =>
                  /\ Len(req.sleeps) = req.attempt
                  /\ req.outcome \in {"success", "fallback"}
                  /\ req.outcome = "fallback" =>
                        req.calls = req.max_retries /\ req.last_error # "None"

\* a call made without the option: its first two attempts failed, the
\* second on schema validation, it waited 1 and 2 seconds, and the third
\* attempt gave the recipe
C20_Witness ==
    \E r \in Reqs :
        /\ InRetryLoop(r) /\ ~reqs[r].options_max_retries.some
        /\ reqs[r].last_error = "ValidationError"
        /\ reqs[r].sleeps = <<1, 2>>
        /\ reqs[r].calls = 3
        /\ reqs[r].pc = "done" /\ reqs[r].outcome = "success"

(***************************************************************************)
(* Claims about the retry loop of fetch_content                            *)
(***************************************************************************)
\* the asyncio.sleep waits made after attempt k
WaitsAfter(k) == {j \in 1..Len(f_sleeps) : f_sleeps[j].after = k}

\* C21: fetch_content issues at most max_retries HTTP requests (3 when the
\* option is not given) and none after the first 200 response; between failed
\* attempt k (counted from 0) and the next attempt it waits once, for
\* retry_delay * 2^k, and it does so after an HTTP 429 as after a timeout or
\* a connection error.
C21_FetchRetriesWithBackoff ==
    /\ Len(f_hist) <= f_max_retries
    /\ (f_pc # "idle" /\ ~f_options.some) => f_max_retries = 3
    /\ \A i \in 1..Len(f_hist) :
           f_hist[i] = "200" => i = Len(f_hist) /\ f_pc = "returned"
    /\ \A i \in 1..(Len(f_hist) - 1) :
           /\ Cardinality(WaitsAfter(i - 1)) = 1
           /\ \A j \in WaitsAfter(i - 1) : f_sleeps[j].wait = retry_delay * Pow2(i - 1)

\* a fetch made without the option: a 429, then a timeout, then the 200 of
\* the third request, with waits of 1 and 2 seconds in between
C21_Witness ==
    /\ f_pc = "returned" /\ ~f_options.some
    /\ f_hist = <<"429", "Timeout", "200">>
    /\ f_sleeps = <<[after |-> 0, wait |-> 1], [after |-> 1, wait |-> 2]>>

(***************************************************************************)
(* Claims about concurrent calls and the cache key                         *)
(***************************************************************************)
\* calls a and b pass the same text with the cache on, and each was made
\* before the other had returned
Concurrent(a, b) ==
    /\ a # b
    /\ reqs[a].kind = "text" /\ reqs[b].kind = "text"
    /\ reqs[a].use_cache /\ reqs[b].use_cache
    /\ reqs[a].text = reqs[b].text
    /\ a \notin reqs[b].after /\ b \notin reqs[a].after

\* a cache entry with every key of a dumped RecipeBase and its confidence
CompleteEntry(e) ==
    /\ DOMAIN e = DOMAIN Dict_Simple
    /\ e.confidence_score.some
    /\ RecipeBaseValid(e)

\* the entry is the complete result that call r returned
IsResultOf(e, r) ==
    /\ CompleteEntry(e)
    /\ e.confidence_score = Some(Confidence(r))
    /\ e.name = NameStr(RecipeOf(r).name)
    /\ e.ingredients = RecipeOf(r).ingredients
    /\ e.instructions = RecipeOf(r).instructions
    /\ e.stages = RecipeOf(r).stages
    /\ e.prepTime = RecipeOf(r).prepTime /\ e.cookTime = RecipeOf(r).cookTime
    /\ e.totalTime = RecipeOf(r).totalTime
    /\ e.servings = RecipeOf(r).servings
    /\ e.mainIngredient = RecipeOf(r).mainIngredient
    /\ e.tags = RecipeOf(r).tags

\* C22: when two calls with the same text run concurrently with the cache
\* on, both miss the cache and invoke the model; however their steps
\* interleave, once both have returned the cache holds under that key the
\* complete successful result of the call that wrote last, and no entry a
\* call could read is ever partially written.
C22_LastWriterWins ==
    /\ \A key \in DOMAIN g_cache : CompleteEntry(g_cache[key])
    /\ \A a, b \in Reqs :
          (Concurrent(a, b) /\ reqs[a].max_retries > 0 /\ reqs[b].max_retries > 0) =>
              /\ reqs[a].calls > 0 /\ reqs[b].calls > 0
              /\ reqs[a].outcome # "hit" /\ reqs[b].outcome # "hit"
              /\ (Returns(a) /\ Returns(b)) =>
                    \A w \in {a, b} :
                        /\ reqs[w].inserted > 0 <=> reqs[w].outcome = "success"
                        /\ (reqs[w].inserted > 0
                            /\ \A v \in {a, b} : reqs[v].inserted <= reqs[w].inserted)
                             => /\ cache_has(g_cache, _generate_cache_key(reqs[w].text))
                                /\ IsResultOf(g_cache[_generate_cache_key(reqs[w].text)], w)

\* two concurrent calls that both succeeded with different recipes; the call
\* made first wrote last, and the entry is its result
C22_Witness ==
    \E a, b \in Reqs :
        /\ Concurrent(a, b) /\ a < b
        /\ Returns(a) /\ Returns(b)
        /\ reqs[a].outcome = "success" /\ reqs[b].outcome = "success"
        /\ reqs[a].inserted = 2 /\ reqs[b].inserted = 1
        /\ RecipeOf(a).name # RecipeOf(b).name
        /\ IsResultOf(g_cache[_generate_cache_key(reqs[a].text)], a)

\* call b passes, with the cache on, a text that normalizes to the text of
\* call a, which had succeeded with the cache on before b was made
RepeatsNormalized(a, b) ==
    /\ a # b
    /\ reqs[a].kind = "text" /\ reqs[b].kind = "text"
    /\ reqs[a].outcome = "success" /\ reqs[a].use_cache
    /\ a \in reqs[b].after
    /\ reqs[b].use_cache
    /\ processed_text_of[reqs[b].text] = processed_text_of[reqs[a].text]

\* C23: cache entries are keyed by a hash of the normalized input text: two
\* inputs that normalize to the same text (differing only in runs of
\* whitespace, say) have the same key, and once one has been extracted
\* successfully the other is served from the cache without a model call.
C23_NormalizedTextSharesTheEntry ==
    \A a, b \in Reqs :
        RepeatsNormalized(a, b)
            => /\ _generate_cache_key(reqs[b].text) = _generate_cache_key(reqs[a].text)
               /\ reqs[b].outcome = "hit"
               /\ reqs[b].calls = 0

(***************************************************************************)
(* Claims about what is written to the caches                              *)
(***************************************************************************)
\* the cache a call uses and the key it uses there
CacheOf(r) == IF reqs[r].kind = "text" THEN g_cache ELSE i_cache
KeyOf(r) ==
    IF reqs[r].kind = "text" THEN _generate_cache_key(reqs[r].text)
    ELSE _generate_image_cache_key(reqs[r].processed_image.data)

SameInput(a, b) ==
    /\ reqs[a].kind = reqs[b].kind
    /\ reqs[a].text = reqs[b].text
    /\ reqs[a].image = reqs[b].image

\* an extract_recipe or single-image call that, with the cache on, returned
\* the fallback after its last attempt failed
Exhausted(a) ==
    /\ reqs[a].kind \in {"text", "image"}
    /\ Returns(a) /\ reqs[a].outcome = "fallback"
    /\ reqs[a].use_cache

\* C24: only successful extractions are written to the cache.  After an
\* extract_recipe or single-image call that exhausted its retries with the
\* cache on, the cache holds no entry for that input (no call on the input
\* having succeeded), and the next call with the same input invokes the model
\* again rather than being served the fallback.
C24_FallbackIsNotCached ==
    \A a \in Reqs : Exhausted(a) =>
        /\ (\A s \in Reqs : ~(SameInput(a, s) /\ reqs[s].outcome = "success"))
               => ~cache_has(CacheOf(a), KeyOf(a))
        /\ \A b \in Reqs :
               (a \in reqs[b].after /\ SameInput(a, b) /\ reqs[b].max_retries > 0)
                   => /\ reqs[b].outcome # "hit"
                      /\ reqs[b].calls >= 1

\* a call that returned the fallback, and a later call with the same text
\* and the cache on that is waiting for the model
C24_Witness ==
    \E a, b \in Reqs :
        /\ Exhausted(a) /\ reqs[a].kind = "text"
        /\ a \in reqs[b].after /\ SameInput(a, b)
        /\ reqs[b].use_cache
        /\ reqs[b].pc = "awaiting" /\ reqs[b].calls = 1
        /\ g_cache = <<>>

(***************************************************************************)
(* Claims about the order of the OCR calls                                 *)
(***************************************************************************)
\* the call was the last one for its page: it did not raise, or it was the
\* last attempt
LastOfPage(e, max_retries) ==
    e.what = "call" /\ (e.reply # "error" \/ e.attempt = max_retries - 1)

\* C25: in multi-image mode the OCR calls are issued one at a time in
\* ascending image index: the first call for a later image starts only when
\* every call for the images before it, retries and backoff waits included,
\* has finished.
C25_OcrCallsInPageOrder ==
    \A r \in Reqs : reqs[r].kind = "images" =>
        LET e == reqs[r].ocr_events
        IN \A j \in 1..(Len(e) - 1) :
            /\ e[j].page <= e[j + 1].page
            /\ e[j].page < e[j + 1].page =>
                  /\ LastOfPage(e[j], reqs[r].max_retries)
                  /\ e[j + 1].what = "call" /\ e[j + 1].attempt = 0
            /\ e[j].page = e[j + 1].page =>
                  \/ /\ e[j].what = "call" /\ e[j].reply = "error"
                     /\ e[j + 1].what = "sleep" /\ e[j + 1].attempt = e[j].attempt
                  \/ /\ e[j].what = "sleep"
                     /\ e[j + 1].what = "call" /\ e[j + 1].attempt = e[j].attempt + 1

\* two pages: the first page's call raised, was retried after the wait and
\* gave text, and only then the second page's call was made
C25_Witness ==
    \E r \in Reqs :
        /\ reqs[r].kind = "images" /\ reqs[r].page = 2
        /\ Len(reqs[r].ocr_events) = 4
        /\ reqs[r].ocr_events[1] = [page |-> 1, attempt |-> 0, what |-> "call", reply |-> "error"]
        /\ reqs[r].ocr_events[2].what = "sleep"
        /\ reqs[r].ocr_events[3] = [page |-> 1, attempt |-> 1, what |-> "call", reply |-> "text"]
        /\ reqs[r].ocr_events[4].page = 2

(***************************************************************************)
(* Claims about the confidence of a single-image extraction                *)
(***************************************************************************)
\* a single-image call whose extraction succeeded
ImageSucceeded(r) ==
    reqs[r].kind = "image" /\ Returns(r) /\ reqs[r].outcome = "success"

\* the dict the returned recipe was assembled from
ResultOf(r) ==
    RecipeDict(NameStr(RecipeOf(r).name), RecipeOf(r).ingredients,
               RecipeOf(r).instructions, RecipeOf(r).stages,
               RecipeOf(r).prepTime, RecipeOf(r).cookTime, RecipeOf(r).servings,
               RecipeOf(r).mainIngredient, RecipeOf(r).tags)

\* C26 (as stated): for a successful single-image extraction the confidence
\* equals the text-path confidence of the extracted fields multiplied by the
\* image's quality score, capped at 0.9.
C26_ImageConfidenceIsTextConfidenceTimesQuality ==
    \A r \in Reqs : ImageSucceeded(r) =>
        Confidence(r) =
            Min(900, (_calculate_confidence(ResultOf(r))
                      * reqs[r].processed_image.quality_score) \div 1000)

\* the image path's own completeness bonuses, in thousandths
ImageBonus(d) ==
    (IF d.name.v # <<>> /\ d.name.v # Name_Untitled THEN 50 ELSE 0)
    + (IF Len(d.ingredients) >= 3 THEN 100 ELSE 0)
    + (IF Len(d.ingredients) >= 6 THEN 50 ELSE 0)
    + (IF d.instructions.some /\ Len(d.instructions.v) >= 2 THEN 100 ELSE 0)
    + (IF d.stages.some /\ Len(d.stages.v) >= 2 THEN 150 ELSE 0)
    + (IF d.prepTime.some THEN 40 ELSE 0)
    + (IF d.cookTime.some THEN 40 ELSE 0)

\* C26 (amended): for a successful single-image extraction the confidence is
\* 0.6 multiplied by the image's quality score, plus the image path's own
\* bonuses for the extracted fields (name 0.05, 3 ingredients 0.1, 6
\* ingredients 0.05, 2 instructions 0.1, 2 stages 0.15, each time 0.04),
\* kept between 0.1 and 0.9; only the base of 0.6 is scaled by the quality.
C26_ImageConfidenceIsScaledBasePlusBonuses ==
    \A r \in Reqs : ImageSucceeded(r) =>
        LET raw == (600 * reqs[r].processed_image.quality_score) \div 1000
                   + ImageBonus(ResultOf(r))
        IN Confidence(r) = (IF raw > 900 THEN 900 ELSE IF raw < 100 THEN 100 ELSE raw)

\* a successful extraction from an image of less than full quality, with a
\* confidence strictly inside the range that differs from the scaled
\* text-path confidence
C26_Witness ==
    \E r \in Reqs :
        /\ ImageSucceeded(r)
        /\ reqs[r].processed_image.quality_score < 1000
        /\ Confidence(r) > 100 /\ Confidence(r) < 900
        /\ Confidence(r) # _calculate_image_confidence_scaled(ResultOf(r),
                                reqs[r].processed_image.quality_score)

(***************************************************************************)
(* Claims about the structured-data strategy                               *)
(***************************************************************************)
\* a top-level object followed by the items of its graph, if it has one
WithGraphItems(d) ==
    IF d.j = "dict" /\ d.graph # NoGraph THEN <<d>> \o d.graph ELSE <<d>>

RECURSIVE ObjectsOfItems(_, _)
ObjectsOfItems(items, i) ==
    IF i > Len(items) THEN <<>>
    ELSE WithGraphItems(items[i]) \o ObjectsOfItems(items, i + 1)

\* the JSON-LD objects embedded in the page, in document order: for every
\* script block that parses, its object or every element of its array, each
\* followed by the items one level inside its graph
RECURSIVE EmbeddedObjects(_, _)
EmbeddedObjects(scripts, i) ==
    IF i > Len(scripts) THEN <<>>
    ELSE (IF scripts[i].raw = "ok" THEN ObjectsOfItems(scripts[i].items, 1) ELSE <<>>)
         \o EmbeddedObjects(scripts, i + 1)

IsNamedRecipe(d) == d.j = "dict" /\ d.type = "Recipe" /\ d.name # ""

\* C27: the structured-data strategy considers every embedded JSON-LD object
\* in document order (every script block, every element of a top-level
\* array, the items one level inside a graph) and succeeds with the first one
\* whose type includes "Recipe"; a block that does not parse or is no recipe
\* never keeps a later recipe object from being found.
C27_FirstEmbeddedRecipeIsFound ==
    c_pc = "done" =>
        LET objs == EmbeddedObjects(c_page.scripts, 1)
            recipes == {k \in 1..Len(objs) : objs[k].j = "dict" /\ objs[k].type = "Recipe"}
        IN \A k \in recipes :
              ((\A j \in recipes : k <= j) /\ IsNamedRecipe(objs[k]))
                  => /\ c_result.extraction_method = "json-ld"
                     /\ c_result.content = <<"Recipe:", objs[k].name>>

(***************************************************************************)
(* Claims about the removal of repeated lines                              *)
(***************************************************************************)
\* the lines the OCR read on the k-th page that gave text
OcrLines(r, k) == SplitLines(reqs[r].page_texts[k], <<>>)

IsSectionHeader(line) ==
    \/ Contains(LowerText(line), <<"i", "n", "g", "r", "e", "d", "i", "e", "n", "t", "s">>)
    \/ Contains(LowerText(line), <<"i", "n", "s", "t", "r", "u", "c", "t", "i", "o", "n", "s">>)

\* the kind of section a page's line i stands in: the kind of the nearest
\* header above it on the page, "None" for a header and for a line above
\* every header
RECURSIVE SectionAbove(_, _)
SectionAbove(lines, i) ==
    IF i <= 1 THEN "None"
    ELSE IF Contains(LowerText(lines[i - 1]), <<"i", "n", "g", "r", "e", "d", "i", "e", "n", "t", "s">>) THEN "ingredients"
    ELSE IF Contains(LowerText(lines[i - 1]), <<"i", "n", "s", "t", "r", "u", "c", "t", "i", "o", "n", "s">>) THEN "instructions"
    ELSE SectionAbove(lines, i - 1)
SectionOf(lines, i) == IF IsSectionHeader(lines[i]) THEN "None" ELSE SectionAbove(lines, i)

\* the dedup key of a line in a section of that kind
KeyIn(section, line) ==
    IF section = "ingredients" THEN _extract_ingredient_key(line)
    ELSE _extract_instruction_key(line)

\* line i of page l repeats, in the same kind of section, the key of a line
\* of the earlier page k
RepeatsEarlierPage(r, k, l, i) ==
    /\ SectionOf(OcrLines(r, l), i) # "None"
    /\ Truthy(KeyIn(SectionOf(OcrLines(r, l), i), OcrLines(r, l)[i]))
    /\ \E j \in 1..Len(OcrLines(r, k)) :
          /\ SectionOf(OcrLines(r, k), j) = SectionOf(OcrLines(r, l), i)
          /\ KeyIn(SectionOf(OcrLines(r, k), j), OcrLines(r, k)[j])
               = KeyIn(SectionOf(OcrLines(r, l), i), OcrLines(r, l)[i])

\* C28: in the consolidated text built from the pages' OCR output, an
\* ingredient or instruction line whose dedup key was already seen earlier in
\* the same kind of section, an earlier page included, is dropped: nothing
\* under its page's delimiter holds it; the page delimiters are kept, in
\* page order.
C28_RepeatedLinesAreDropped ==
    \A r \in Reqs :
        (Consolidated(r) /\ Len(reqs[r].extracted_texts) >= 2) =>
            LET doc == reqs[r].consolidated_text
                pages == reqs[r].extracted_texts
            IN \A k, l \in 1..Len(pages) :
                (/\ k < l
                 /\ cleaned_text_of[reqs[r].page_texts[k]] # <<>>
                 /\ cleaned_text_of[reqs[r].page_texts[l]] # <<>>) =>
                  /\ MarkerAt(doc, pages[k]) > 0 /\ MarkerAt(doc, pages[l]) > 0
                  /\ MarkerAt(doc, pages[k]) < MarkerAt(doc, pages[l])
                  /\ \A i \in 1..Len(OcrLines(r, l)) :
                        RepeatsEarlierPage(r, k, l, i) =>
                            \A j \in (MarkerAt(doc, pages[l]) + 1)..Len(doc) :
                                ~Contains(doc[j], Strip(OcrLines(r, l)[i]))

(***************************************************************************)
(* Claims about the recipes the entry points return                        *)
(***************************************************************************)
\* C29: every recipe returned by an extraction entry point, on every outcome
\* (successful extraction, cache hit, retry-exhaustion fallback, all-pages-
\* failed fallback, the assembler's minimal recipe), has exactly one of
\* stages and instructions set.
C29_ReturnedRecipeHasStagesXorInstructions ==
    \A r \in Reqs :
        Answered(r) =>
            /\ RecipeOf(r).stages.some \/ RecipeOf(r).instructions.some
            /\ ~(RecipeOf(r).stages.some /\ RecipeOf(r).instructions.some)

\* one call returned the fallback, with its placeholder instruction, and
\* another an extracted recipe made of stages
C29_Witness ==
    \E a, b \in Reqs :
        /\ Answered(a) /\ reqs[a].outcome = "fallback"
        /\ RecipeOf(a).instructions.some /\ ~RecipeOf(a).stages.some
        /\ Answered(b) /\ reqs[b].outcome = "success"
        /\ RecipeOf(b).stages.some /\ ~RecipeOf(b).instructions.some

(***************************************************************************)
(* Claims about the admin rate limiter                                     *)
(***************************************************************************)
\* the requests of ip that were allowed in the window that ends at instant
AllowedWithin(ip, instant) ==
    {k \in DOMAIN l_log :
        /\ l_log[k].ip = ip /\ l_log[k].allowed
        /\ l_log[k].time <= instant
        /\ instant - l_log[k].time < window_seconds}

\* C30: for every client ip and at every instant, the number of requests the
\* limiter has allowed for that ip within the preceding window_seconds is at
\* most max_requests, whatever other ips request in between, however many
\* requests were denied in between, and whether or not a cleanup has run.
C30_AllowedWithinWindowIsBounded ==
    \A ip \in ClientIps : \A instant \in 0..l_now :
        Cardinality(AllowedWithin(ip, instant)) <= max_requests

\* an ip filled its window and was denied, another ip was served in
\* between, a cleanup has run, and the first ip is served again later
C30_Witness ==
    \E a, b \in ClientIps : \E i, j, k, l \in DOMAIN l_log :
        /\ a # b /\ i < j /\ j < k /\ k < l
        /\ l_log[i].ip = a /\ l_log[i].allowed
        /\ l_log[j].ip = b /\ l_log[j].allowed
        /\ l_log[k].ip = a /\ ~l_log[k].allowed
        /\ Cardinality(AllowedWithin(a, l_log[k].time)) = max_requests
        /\ l_log[l].ip = a /\ l_log[l].allowed
        /\ l_last_cleanup > 0

=============================================================================
